---- MODULE Spec2Model ----
(***************************************************************************)
(* A model of siglum-filesystem: the mount resolver of FileSystemService   *)
(* and the directory emulation of IndexedDBBackend over its two object     *)
(* stores ("files" and "directories", both keyed by path).                 *)
(*                                                                         *)
(* A path is a sequence of one-character strings, so that startsWith,      *)
(* slice, split and the /\/+/g replacement are computed as the code        *)
(* computes them.                                                          *)
(***************************************************************************)
EXTENDS Integers, Sequences, FiniteSets, TLC

VARIABLES
    mounts,   \* FileSystemService.mounts: sequence of [path, backend]
    files,    \* object store IDB_FILES_STORE: key (path) -> StoredFile
    dirs,     \* object store IDB_DIRS_STORE: key (path) -> StoredDirectory
    now,      \* the value Date.now() returns to the next operation
    eventHandlers,  \* FileSystemService.eventHandlers: the handlers, in insertion order
    inflight,       \* the calls that are suspended at an await, by call number
    last      \* the operation that ran last, its arguments and its outcome

vars == <<mounts, files, dirs, now, eventHandlers, inflight, last>>

-----------------------------------------------------------------------------
(* Strings *)

SL == "/"

\* UTF-16 code unit of each character of the model's alphabet
CharCode(c) ==
    CASE c = "/" -> 47
      [] c = "a" -> 97
      [] c = "b" -> 98
      [] c = "x" -> 120
      [] c = "hs" -> 55296      \* a lone high surrogate, U+D800
      [] c = "rc" -> 65533      \* U+FFFD, the replacement character
      [] c = "max" -> 65535     \* U+FFFF

\* String.prototype.startsWith
StartsWith(s, p) == Len(p) <= Len(s) /\ SubSeq(s, 1, Len(p)) = p

\* String.prototype.endsWith
EndsWith(s, p) == Len(p) <= Len(s) /\ SubSeq(s, Len(s) - Len(p) + 1, Len(s)) = p

\* s.slice(i), i a 0-based index >= 0
SliceFrom(s, i) == SubSeq(s, i + 1, Len(s))

\* s.slice(0, j), j a 0-based index >= 0
SliceTo(s, j) == SubSeq(s, 1, j)

\* s.slice(0, -1)
DropLast(s) == SubSeq(s, 1, Len(s) - 1)

\* s.indexOf('/'): 0-based, -1 when absent
IndexOfSlash(s) ==
    IF \E i \in 1..Len(s) : s[i] = SL
    THEN (CHOOSE i \in 1..Len(s) : s[i] = SL /\ \A j \in 1..(i - 1) : s[j] # SL) - 1
    ELSE -1

\* s.lastIndexOf('/'): 0-based, -1 when absent
LastIndexOfSlash(s) ==
    IF \E i \in 1..Len(s) : s[i] = SL
    THEN (CHOOSE i \in 1..Len(s) : s[i] = SL /\ \A j \in (i + 1)..Len(s) : s[j] # SL) - 1
    ELSE -1

\* s.replace(/\/+/g, '/')
RECURSIVE CollapseSlashes(_)
CollapseSlashes(s) ==
    IF Len(s) <= 1 THEN s
    ELSE IF s[1] = SL /\ s[2] = SL THEN CollapseSlashes(Tail(s))
    ELSE <<s[1]>> \o CollapseSlashes(Tail(s))

\* s.split('/').filter(Boolean): the non-empty segments of s, in order
RECURSIVE SplitSegments(_)
SplitSegments(s) ==
    IF Len(s) = 0 THEN << >>
    ELSE IF s[1] = SL THEN SplitSegments(Tail(s))
    ELSE LET i == IndexOfSlash(s)
         IN  IF i = -1 THEN <<s>>
             ELSE <<SliceTo(s, i)>> \o SplitSegments(SliceFrom(s, i))

\* Comparison of two strings by code units (the order of IndexedDB string keys)
RECURSIVE KeyLess(_, _)
KeyLess(s, t) ==
    IF Len(t) = 0 THEN FALSE
    ELSE IF Len(s) = 0 THEN TRUE
    ELSE IF s[1] = t[1] THEN KeyLess(Tail(s), Tail(t))
    ELSE CharCode(s[1]) < CharCode(t[1])

-----------------------------------------------------------------------------
(* FileSystemService: path normalisation and the mount table *)

\* FileSystemService.normalizePath
svcNormalizePath(path) ==
    LET p == IF StartsWith(path, <<SL>>) THEN path ELSE <<SL>> \o path
    IN  CollapseSlashes(p)

\* A mount path that keeps the slashes of its input as they are
normalizeMountPathAsGiven(path) ==
    LET normalized == IF StartsWith(path, <<SL>>) THEN path ELSE <<SL>> \o path
    IN  IF EndsWith(normalized, <<SL>>) THEN normalized ELSE normalized \o <<SL>>

\* FileSystemService.normalizeMountPath
normalizeMountPath(path) ==
    LET normalized == svcNormalizePath(path)
    IN  IF EndsWith(normalized, <<SL>>) THEN normalized ELSE normalized \o <<SL>>

\* A filter that removes nothing
FilterMountsKeepAll(ms, normalizedPath) == ms

\* Array.prototype.filter over the mount table
RECURSIVE FilterMounts(_, _)
FilterMounts(ms, normalizedPath) ==
    IF Len(ms) = 0 THEN << >>
    ELSE IF Head(ms).path # normalizedPath
         THEN <<Head(ms)>> \o FilterMounts(Tail(ms), normalizedPath)
         ELSE FilterMounts(Tail(ms), normalizedPath)

\* this.mounts.sort((a, b) => b.path.length - a.path.length): Array.prototype.sort
\* is stable, so entries of equal length keep their relative order.
RECURSIVE InsertMount(_, _)
InsertMount(sorted, m) ==
    IF Len(sorted) = 0 THEN <<m>>
    ELSE IF Len(Head(sorted).path) >= Len(m.path)
         THEN <<Head(sorted)>> \o InsertMount(Tail(sorted), m)
         ELSE <<m>> \o sorted

RECURSIVE SortMounts(_)
SortMounts(ms) ==
    IF Len(ms) = 0 THEN << >>
    ELSE InsertMount(SortMounts(DropLast(ms)), ms[Len(ms)])

\* The mount table after FileSystemService.mount(path, backend)
MountSkipSort(ms, path, backend) ==
    LET normalizedPath == normalizeMountPath(path)
    IN  Append(FilterMounts(ms, normalizedPath), [path |-> normalizedPath, backend |-> backend])

mount(ms, path, backend) ==
    LET normalizedPath == normalizeMountPath(path)
        removed == FilterMounts(ms, normalizedPath)
        pushed == Append(removed, [path |-> normalizedPath, backend |-> backend])
    IN  SortMounts(pushed)

\* The mount table after FileSystemService.unmount(path)
unmountBelow(ms, path) ==
    SelectSeq(ms, LAMBDA m : ~StartsWith(m.path, normalizeMountPath(path)))

unmount(ms, path) == FilterMounts(ms, normalizeMountPath(path))

\* The position in the table of the entry at the mount path, 0 when there is none
MountAt(ms, normalizedPath) ==
    IF \E i \in 1..Len(ms) : ms[i].path = normalizedPath
    THEN CHOOSE i \in 1..Len(ms) : ms[i].path = normalizedPath
    ELSE 0

\* The test of the loop of FileSystemService.getBackendForPath
MountMatchesNoSlash(m, normalizedPath) ==
    StartsWith(normalizedPath, DropLast(m.path))

MountMatches(m, normalizedPath) ==
    \/ StartsWith(normalizedPath, m.path)
    \/ normalizedPath = DropLast(m.path)

\* FileSystemService.getBackendForPath: the first mount of the table that matches;
\* err = "NoMount" stands for the thrown 'No filesystem mounted for path'.
\* mount is the loop variable at the return.
getBackendForPath(ms, path) ==
    LET normalizedPath == svcNormalizePath(path)
        hits == {i \in 1..Len(ms) : MountMatches(ms[i], normalizedPath)}
    IN  IF hits = {}
        THEN [err |-> "NoMount", backend |-> "none", relativePath |-> << >>, mount |-> 0]
        ELSE LET i == CHOOSE k \in hits : \A j \in hits : k <= j
                 sliced == SliceFrom(normalizedPath, Len(ms[i].path))
                 relativePath == IF StartsWith(sliced, <<SL>>) THEN sliced ELSE <<SL>> \o sliced
             IN  [err |-> "none", backend |-> ms[i].backend,
                  relativePath |-> relativePath, mount |-> i]

-----------------------------------------------------------------------------
(* IndexedDBBackend: the flat store *)

\* TextEncoder.encode over the model's alphabet: UTF-8, a lone surrogate becoming U+FFFD
RECURSIVE utf8Encode(_)
utf8Encode(str) ==
    IF Len(str) = 0 THEN << >>
    ELSE (IF Head(str) = "x" THEN <<120>> ELSE <<239, 191, 189>>) \o utf8Encode(Tail(str))

\* TextDecoder.decode over the bytes of the model: 0x78 is 'x', EF BF BD is U+FFFD,
\* and a byte that starts no valid sequence (0xFF) decodes to U+FFFD
RECURSIVE utf8Decode(_)
utf8Decode(bytes) ==
    IF Len(bytes) = 0 THEN << >>
    ELSE IF Head(bytes) = 120 THEN <<"x">> \o utf8Decode(Tail(bytes))
    ELSE IF Len(bytes) >= 3 /\ SubSeq(bytes, 1, 3) = <<239, 191, 189>>
         THEN <<"rc">> \o utf8Decode(SubSeq(bytes, 4, Len(bytes)))
    ELSE <<"rc">> \o utf8Decode(Tail(bytes))

\* IDBObjectStore.put and IDBObjectStore.delete on a store held as a function of its keys
StorePut(store, key, value) ==
    [k \in (DOMAIN store) \cup {key} |-> IF k = key THEN value ELSE store[k]]

StoreDelete(store, key) == [k \in (DOMAIN store) \ {key} |-> store[k]]

\* IndexedDBBackend.normalizePath: the trailing slash is removed before the runs
\* of slashes are collapsed
normalizePath(path) ==
    LET p1 == IF StartsWith(path, <<SL>>) THEN path ELSE <<SL>> \o path
        p2 == IF Len(p1) > 1 /\ EndsWith(p1, <<SL>>) THEN DropLast(p1) ELSE p1
    IN  CollapseSlashes(p2)

\* IndexedDBBackend.getParentPath
getParentPath(path) ==
    LET normalized == normalizePath(path)
        lastSlash == LastIndexOfSlash(normalized)
    IN  IF lastSlash <= 0 THEN <<SL>> ELSE SliceTo(normalized, lastSlash)

\* IndexedDBBackend.readFile; err = "NotFound" stands for the rejection with ENOENT
readFile(f, path) ==
    LET normalized == normalizePath(path)
    IN  IF normalized \notin DOMAIN f
        THEN [err |-> "NotFound", value |-> << >>]
        ELSE IF f[normalized].isBinary
             THEN [err |-> "none", value |-> utf8Decode(f[normalized].content)]
             ELSE [err |-> "none", value |-> f[normalized].content]

\* IndexedDBBackend.readBinary
readBinary(f, path) ==
    LET normalized == normalizePath(path)
    IN  IF normalized \notin DOMAIN f
        THEN [err |-> "NotFound", value |-> << >>]
        ELSE IF f[normalized].isBinary
             THEN [err |-> "none", value |-> f[normalized].content]
             ELSE [err |-> "none", value |-> utf8Encode(f[normalized].content)]

\* An exists that answers for a file only when its parent has a directory record
existsBelowDirectory(f, d, path) ==
    LET normalized == normalizePath(path)
    IN  IF normalized \in DOMAIN f
        THEN LastIndexOfSlash(normalized) <= 0
             \/ SliceTo(normalized, LastIndexOfSlash(normalized)) \in DOMAIN d
        ELSE normalized \in DOMAIN d

\* IndexedDBBackend.exists: the files store first, then the directories store
exists(f, d, path) ==
    LET normalized == normalizePath(path)
    IN  IF normalized \in DOMAIN f THEN TRUE ELSE normalized \in DOMAIN d

\* A stat that looks up the directories store first
statDirectoryFirst(f, d, path) ==
    LET normalized == normalizePath(path)
    IN  IF normalized \in DOMAIN d
        THEN [err |-> "none", size |-> 0, isDirectory |-> TRUE,
              isFile |-> FALSE, mtime |-> d[normalized].ctime]
        ELSE IF normalized \in DOMAIN f
        THEN [err |-> "none", size |-> f[normalized].size, isDirectory |-> FALSE,
              isFile |-> TRUE, mtime |-> f[normalized].mtime]
        ELSE [err |-> "NotFound", size |-> 0, isDirectory |-> FALSE,
              isFile |-> FALSE, mtime |-> 0]

\* IndexedDBBackend.stat
stat(f, d, path) ==
    LET normalized == normalizePath(path)
    IN  IF normalized \in DOMAIN f
        THEN [err |-> "none", size |-> f[normalized].size, isDirectory |-> FALSE,
              isFile |-> TRUE, mtime |-> f[normalized].mtime]
        ELSE IF normalized \in DOMAIN d
        THEN [err |-> "none", size |-> 0, isDirectory |-> TRUE,
              isFile |-> FALSE, mtime |-> d[normalized].ctime]
        ELSE [err |-> "NotFound", size |-> 0, isDirectory |-> FALSE,
              isFile |-> FALSE, mtime |-> 0]

\* The loop of mkdir that builds pathsToCreate from the parts of the path
RECURSIVE PathsToCreate(_, _)
PathsToCreate(currentPath, parts) ==
    IF Len(parts) = 0 THEN << >>
    ELSE LET next == currentPath \o <<SL>> \o Head(parts)
         IN  <<next>> \o PathsToCreate(next, Tail(parts))

\* store.put of every missing path, in order
RECURSIVE PutDirs(_, _, _)
PutDirs(d, paths, t) ==
    IF Len(paths) = 0 THEN d
    ELSE PutDirs(StorePut(d, Head(paths), [ctime |-> t]), Tail(paths), t)

\* IndexedDBBackend.mkdir: the directories store after the call at time t
mkdirPutAll(d, path, t) ==
    PutDirs(d, PathsToCreate(<< >>, SplitSegments(normalizePath(path))), t)

mkdir(d, path, t) ==
    LET normalized == normalizePath(path)
        parts == SplitSegments(normalized)
        pathsToCreate == PathsToCreate(<< >>, parts)
        missingPaths == SelectSeq(pathsToCreate, LAMBDA p : p \notin DOMAIN d)
    IN  IF Len(pathsToCreate) = 0 THEN d
        ELSE IF Len(missingPaths) = 0 THEN d
        ELSE PutDirs(d, missingPaths, t)

\* The directories store after the 'Ensure parent directory exists' step of
\* writeFile and writeBinary
EnsureParent(f, d, normalized, t) ==
    LET parentPath == getParentPath(normalized)
    IN  IF parentPath # <<SL>>
        THEN IF ~exists(f, d, parentPath) THEN mkdir(d, parentPath, t) ELSE d
        ELSE d

\* The record put by writeFile and writeBinary: ctime is kept from the existing record
NewFile(f, normalized, content, isBinary, size, t) ==
    [content |-> content, isBinary |-> isBinary, size |-> size, mtime |-> t,
     ctime |-> IF normalized \in DOMAIN f THEN f[normalized].ctime ELSE t]

\* A writeFile that leaves the record it finds at the key as it is
writeFileKeepExisting(f, d, path, content, t) ==
    LET normalized == normalizePath(path)
    IN  [files |-> IF normalized \in DOMAIN f THEN f
                   ELSE StorePut(f, normalized,
                          NewFile(f, normalized, content, FALSE, Len(utf8Encode(content)), t)),
         dirs |-> EnsureParent(f, d, normalized, t)]

\* IndexedDBBackend.writeFile: both stores after the call at time t
writeFile(f, d, path, content, t) ==
    LET normalized == normalizePath(path)
    IN  [files |-> StorePut(f, normalized,
                     NewFile(f, normalized, content, FALSE, Len(utf8Encode(content)), t)),
         dirs |-> EnsureParent(f, d, normalized, t)]

\* IndexedDBBackend.writeBinary
writeBinary(f, d, path, content, t) ==
    LET normalized == normalizePath(path)
    IN  [files |-> StorePut(f, normalized,
                     NewFile(f, normalized, content, TRUE, Len(content), t)),
         dirs |-> EnsureParent(f, d, normalized, t)]

\* IndexedDBBackend.deleteFile: the files store after the call
deleteFile(f, path) == StoreDelete(f, normalizePath(path))

\* The keys of a store in the order a cursor visits them
RECURSIVE SortKeys(_)
SortKeys(keys) ==
    IF keys = {} THEN << >>
    ELSE LET least == CHOOSE k \in keys : \A o \in keys \ {k} : KeyLess(k, o)
         IN  <<least>> \o SortKeys(keys \ {least})

\* IDBKeyRange.bound(prefix, prefix + U+FFFF, false, true)
InKeyRange(key, prefix) ==
    /\ ~KeyLess(key, prefix)
    /\ KeyLess(key, prefix \o <<"max">>)

\* The immediate child name readdir computes from a key below prefix
ChildName(key, prefix) ==
    LET relativePath == SliceFrom(key, Len(prefix))
        slashIndex == IndexOfSlash(relativePath)
    IN  IF slashIndex = -1 THEN relativePath ELSE SliceTo(relativePath, slashIndex)

\* The cursor over the files store: acc = [entries, seenNames]
RECURSIVE ScanFiles(_, _, _)
ScanFiles(keys, prefix, acc) ==
    IF Len(keys) = 0 THEN acc
    ELSE LET key == Head(keys)
             name == ChildName(key, prefix)
             slashIndex == IndexOfSlash(SliceFrom(key, Len(prefix)))
         IN  IF Len(name) > 0 /\ name \notin acc.seenNames /\ slashIndex = -1
             THEN ScanFiles(Tail(keys), prefix,
                      [entries |-> Append(acc.entries,
                                     [name |-> name, path |-> key, isDirectory |-> FALSE]),
                       seenNames |-> acc.seenNames \cup {name}])
             ELSE ScanFiles(Tail(keys), prefix, acc)

\* The cursor over the directories store
RECURSIVE ScanDirs(_, _, _, _)
ScanDirs(keys, prefix, normalized, acc) ==
    IF Len(keys) = 0 THEN acc
    ELSE LET key == Head(keys)
             name == ChildName(key, prefix)
         IN  IF key # normalized /\ Len(name) > 0 /\ name \notin acc.seenNames
             THEN ScanDirs(Tail(keys), prefix, normalized,
                      [entries |-> Append(acc.entries,
                                     [name |-> name, path |-> prefix \o name,
                                      isDirectory |-> TRUE]),
                       seenNames |-> acc.seenNames \cup {name}])
             ELSE ScanDirs(Tail(keys), prefix, normalized, acc)

\* a.name.localeCompare(b.name) < 0, for names over the letters of the model
LocaleLess(n1, n2) == KeyLess(n1, n2)

\* The comparator of entries.sort in readdir: a sorts before b
EntryBefore(a, b) ==
    IF a.isDirectory # b.isDirectory THEN a.isDirectory
    ELSE LocaleLess(a.name, b.name)

\* IndexedDBBackend.readdir: the entries, sorted
readdir(f, d, path) ==
    LET normalized == normalizePath(path)
        prefix == IF normalized = <<SL>> THEN <<SL>> ELSE normalized \o <<SL>>
        fileKeys == SortKeys({k \in DOMAIN f : InKeyRange(k, prefix)})
        dirKeys == SortKeys({k \in DOMAIN d : InKeyRange(k, prefix)})
        afterFiles == ScanFiles(fileKeys, prefix, [entries |-> << >>, seenNames |-> {}])
        afterDirs == ScanDirs(dirKeys, prefix, normalized, afterFiles)
    IN  SortSeq(afterDirs.entries, EntryBefore)

\* IndexedDBBackend.rmdir: both stores after the call
RECURSIVE rmdir(_, _, _, _)
RECURSIVE RmdirEntries(_, _, _)
RmdirEntries(f, d, entries) ==
    IF Len(entries) = 0 THEN [files |-> f, dirs |-> d]
    ELSE LET entry == Head(entries)
             after == IF entry.isDirectory
                      THEN rmdir(f, d, entry.path, TRUE)
                      ELSE [files |-> deleteFile(f, entry.path), dirs |-> d]
         IN  RmdirEntries(after.files, after.dirs, Tail(entries))

\* An rmdir that removes what readdir lists whether recursive is set or not
rmdirWithChildren(f, d, path, recursive) ==
    LET normalized == normalizePath(path)
        after == RmdirEntries(f, d, readdir(f, d, normalized))
    IN  [files |-> after.files, dirs |-> StoreDelete(after.dirs, normalized)]

rmdir(f, d, path, recursive) ==
    LET normalized == normalizePath(path)
        after == IF recursive
                 THEN RmdirEntries(f, d, readdir(f, d, normalized))
                 ELSE [files |-> f, dirs |-> d]
    IN  [files |-> after.files, dirs |-> StoreDelete(after.dirs, normalized)]

\* IndexedDBBackend.rename: readBinary, stat, the directory test, writeBinary, deleteFile
rename(f, d, oldPath, newPath, t) ==
    LET content == readBinary(f, oldPath)
        stats == stat(f, d, oldPath)
    IN  IF content.err # "none" THEN [err |-> content.err, files |-> f, dirs |-> d]
        ELSE IF stats.err # "none" THEN [err |-> stats.err, files |-> f, dirs |-> d]
        ELSE IF stats.isDirectory THEN [err |-> "InvalidOperation", files |-> f, dirs |-> d]
        ELSE LET written == writeBinary(f, d, newPath, content.value, t)
             IN  [err |-> "none", files |-> deleteFile(written.files, oldPath),
                  dirs |-> written.dirs]

\* IndexedDBBackend.copyFile
copyFile(f, d, src, dest, t) ==
    LET content == readBinary(f, src)
    IN  IF content.err # "none" THEN [err |-> content.err, files |-> f, dirs |-> d]
        ELSE LET written == writeBinary(f, d, dest, content.value, t)
             IN  [err |-> "none", files |-> written.files, dirs |-> written.dirs]

\* The loop of IndexedDBBackend.readBinaryBatch: results is the Map built so far,
\* keyed by the path as it was passed in
RECURSIVE ReadBatchLoop(_, _, _)
ReadBatchLoop(f, paths, results) ==
    IF Len(paths) = 0 THEN results
    ELSE LET path == Head(paths)
             normalized == normalizePath(path)
         IN  IF normalized \in DOMAIN f
             THEN ReadBatchLoop(f, Tail(paths),
                      StorePut(results, path,
                               IF f[normalized].isBinary THEN f[normalized].content
                               ELSE utf8Encode(f[normalized].content)))
             ELSE ReadBatchLoop(f, Tail(paths), results)

\* IndexedDBBackend.readBinaryBatch: the Map it resolves with
readBinaryBatch(f, paths) == ReadBatchLoop(f, paths, << >>)

\* parts.pop() followed by the loop that adds every ancestor of one entry to
\* dirsToCreate: the ancestors of the path, the path itself left out
EntryAncestors(path) ==
    LET parts == SplitSegments(normalizePath(path))
    IN  IF Len(parts) = 0 THEN << >> ELSE PathsToCreate(<< >>, DropLast(parts))

\* The loop over entries that fills dirsToCreate, in insertion order (a Set keeps
\* the first insertion of a value)
RECURSIVE DirsToCreate(_)
DirsToCreate(entries) ==
    IF Len(entries) = 0 THEN << >>
    ELSE EntryAncestors(Head(entries).path) \o DirsToCreate(Tail(entries))

\* for (const dir of dirsToCreate) await this.mkdir(dir)
RECURSIVE MkdirAll(_, _, _)
MkdirAll(d, dirsToCreate, t) ==
    IF Len(dirsToCreate) = 0 THEN d
    ELSE MkdirAll(mkdir(d, Head(dirsToCreate), t), Tail(dirsToCreate), t)

\* The store.put of every entry, chunk after chunk: ctime and mtime are both now
RECURSIVE PutEntries(_, _, _)
PutEntries(f, entries, t) ==
    IF Len(entries) = 0 THEN f
    ELSE LET e == Head(entries)
         IN  PutEntries(StorePut(f, normalizePath(e.path),
                                 [content |-> e.content, isBinary |-> TRUE,
                                  size |-> Len(e.content), mtime |-> t, ctime |-> t]),
                        Tail(entries), t)

\* IndexedDBBackend.writeBinaryBatch: both stores after the call at time t. The
\* chunks of `concurrency` entries are written one after the other, so the
\* width of a chunk does not show in the stores.
writeBinaryBatch(f, d, entries, createParents, t) ==
    IF Len(entries) = 0 THEN [files |-> f, dirs |-> d]
    ELSE [files |-> PutEntries(f, entries, t),
          dirs |-> IF createParents THEN MkdirAll(d, DirsToCreate(entries), t) ELSE d]

\* entries.slice(i, i + concurrency) for i = 0, concurrency, 2 * concurrency, ...
RECURSIVE Chunks(_, _)
Chunks(entries, concurrency) ==
    IF Len(entries) = 0 THEN << >>
    ELSE IF Len(entries) <= concurrency THEN <<entries>>
    ELSE <<SubSeq(entries, 1, concurrency)>>
         \o Chunks(SubSeq(entries, concurrency + 1, Len(entries)), concurrency)

\* A chunk loop that goes on with the next chunk after the failing one
RECURSIVE ChunkLoopContinue(_, _, _, _, _, _, _, _)
ChunkLoopContinue(f, chunks, k, failAt, completed, total, t, reports) ==
    IF k > Len(chunks)
    THEN [err |-> IF failAt \in 1..Len(chunks) THEN "IOError" ELSE "none",
          files |-> f, reports |-> reports]
    ELSE IF k = failAt
    THEN ChunkLoopContinue(f, chunks, k + 1, failAt, completed, total, t, reports)
    ELSE LET done == completed + Len(chunks[k])
         IN  ChunkLoopContinue(PutEntries(f, chunks[k], t), chunks, k + 1, failAt, done,
                               total, t, Append(reports, <<done, total>>))

\* The chunk loop of IndexedDBBackend.writeBinaryBatch from chunk number k on:
\* one readwrite transaction per chunk, then onProgress(completed, total).  The
\* transaction of chunk failAt ends in onerror: it is aborted, none of its puts
\* is kept, the promise is rejected and the loop is left.
RECURSIVE ChunkLoop(_, _, _, _, _, _, _, _)
ChunkLoop(f, chunks, k, failAt, completed, total, t, reports) ==
    IF k > Len(chunks) THEN [err |-> "none", files |-> f, reports |-> reports]
    ELSE IF k = failAt THEN [err |-> "IOError", files |-> f, reports |-> reports]
    ELSE LET done == completed + Len(chunks[k])
         IN  ChunkLoop(PutEntries(f, chunks[k], t), chunks, k + 1, failAt, done, total, t,
                       Append(reports, <<done, total>>))

\* IndexedDBBackend.writeBinaryBatch with its onProgress calls: reports is the
\* sequence of (completed, total) pairs handed to onProgress
writeBinaryBatchRun(f, d, entries, createParents, concurrency, failAt, t) ==
    LET total == Len(entries)
    IN  IF total = 0
        THEN [err |-> "none", files |-> f, dirs |-> d, reports |-> << <<0, 0>> >>]
        ELSE LET made == IF createParents THEN MkdirAll(d, DirsToCreate(entries), t) ELSE d
                 run == ChunkLoop(f, Chunks(entries, concurrency), 1, failAt, 0, total, t, << >>)
             IN  [err |-> run.err, files |-> run.files, dirs |-> made,
                  reports |-> run.reports]

-----------------------------------------------------------------------------
(* FileSystemService: the operations, with no subscriber and no options *)

\* What a service operation returns when getBackendForPath throws
NoMountResult(f, d) == [err |-> "NoMount", files |-> f, dirs |-> d]

\* FileSystemService.readFile
svcReadFile(ms, f, path) ==
    LET r == getBackendForPath(ms, path)
    IN  IF r.err # "none" THEN [err |-> r.err, value |-> << >>]
        ELSE readFile(f, r.relativePath)

\* FileSystemService.readBinary
svcReadBinary(ms, f, path) ==
    LET r == getBackendForPath(ms, path)
    IN  IF r.err # "none" THEN [err |-> r.err, value |-> << >>]
        ELSE readBinary(f, r.relativePath)

\* FileSystemService.exists: a failed resolution gives false
svcExists(ms, f, d, path) ==
    LET r == getBackendForPath(ms, path)
    IN  IF r.err # "none" THEN FALSE ELSE exists(f, d, r.relativePath)

\* IndexedDBBackend.exists when the transaction may fail: ioError says that a get
\* request of the call ends in onerror, and the promise is then rejected with
\* request.error (err = "IOError")
existsRequest(f, d, path, ioError) ==
    IF ioError THEN [err |-> "IOError", value |-> FALSE]
    ELSE [err |-> "none", value |-> exists(f, d, path)]

\* FileSystemService.exists, the outcome of the promise it returns: the catch
\* block encloses the call of getBackendForPath and the creation of the backend's
\* promise, which is returned without await, so a rejection of that promise is
\* the outcome of the call
svcExistsOutcome(ms, f, d, path, ioError) ==
    LET r == getBackendForPath(ms, path)
    IN  IF r.err # "none" THEN [err |-> "none", value |-> FALSE]
        ELSE existsRequest(f, d, r.relativePath, ioError)

\* FileSystemService.writeFile
svcWriteFile(ms, f, d, path, content, t) ==
    LET r == getBackendForPath(ms, path)
    IN  IF r.err # "none" THEN NoMountResult(f, d)
        ELSE LET w == writeFile(f, d, r.relativePath, content, t)
             IN  [err |-> "none", files |-> w.files, dirs |-> w.dirs]

\* FileSystemService.writeBinary
svcWriteBinary(ms, f, d, path, content, t) ==
    LET r == getBackendForPath(ms, path)
    IN  IF r.err # "none" THEN NoMountResult(f, d)
        ELSE LET w == writeBinary(f, d, r.relativePath, content, t)
             IN  [err |-> "none", files |-> w.files, dirs |-> w.dirs]

\* FileSystemService.deleteFile
svcDeleteFile(ms, f, d, path) ==
    LET r == getBackendForPath(ms, path)
    IN  IF r.err # "none" THEN NoMountResult(f, d)
        ELSE [err |-> "none", files |-> deleteFile(f, r.relativePath), dirs |-> d]

\* FileSystemService.mkdir
svcMkdir(ms, f, d, path, t) ==
    LET r == getBackendForPath(ms, path)
    IN  IF r.err # "none" THEN NoMountResult(f, d)
        ELSE [err |-> "none", files |-> f, dirs |-> mkdir(d, r.relativePath, t)]

\* The map of FileSystemService.readdir over the entries of the backend
RECURSIVE TranslateEntries(_, _)
TranslateEntries(entries, normalizedMountPath) ==
    IF Len(entries) = 0 THEN << >>
    ELSE LET entry == Head(entries)
             path == IF normalizedMountPath = <<SL>> THEN entry.path
                     ELSE normalizedMountPath \o SliceFrom(entry.path, 1)
         IN  <<[name |-> entry.name, path |-> path, isDirectory |-> entry.isDirectory]>>
             \o TranslateEntries(Tail(entries), normalizedMountPath)

\* FileSystemService.readdir
svcReaddir(ms, f, d, path) ==
    LET r == getBackendForPath(ms, path)
    IN  IF r.err # "none" THEN [err |-> r.err, entries |-> << >>]
        ELSE [err |-> "none",
              entries |-> TranslateEntries(readdir(f, d, r.relativePath),
                                           svcNormalizePath(path))]

\* FileSystemService.rename: across two backend instances it is readBinary,
\* writeBinary, deleteFile; on one instance it is the rename of the backend
svcRename(ms, f, d, oldPath, newPath, t) ==
    LET oldBackend == getBackendForPath(ms, oldPath)
        newBackend == getBackendForPath(ms, newPath)
    IN  IF oldBackend.err # "none" \/ newBackend.err # "none" THEN NoMountResult(f, d)
        ELSE IF oldBackend.backend # newBackend.backend
        THEN LET content == readBinary(f, oldBackend.relativePath)
             IN  IF content.err # "none" THEN [err |-> content.err, files |-> f, dirs |-> d]
                 ELSE LET w == writeBinary(f, d, newBackend.relativePath, content.value, t)
                      IN  [err |-> "none",
                           files |-> deleteFile(w.files, oldBackend.relativePath),
                           dirs |-> w.dirs]
        ELSE rename(f, d, oldBackend.relativePath, newBackend.relativePath, t)

\* The first loop of FileSystemService.readBinaryBatch: the entries {path,
\* relativePath} of the paths that resolve, with the backend each resolved to
RECURSIVE ResolveBatch(_, _)
ResolveBatch(ms, paths) ==
    IF Len(paths) = 0 THEN << >>
    ELSE LET r == getBackendForPath(ms, Head(paths))
         IN  (IF r.err # "none" THEN << >>
              ELSE <<[path |-> Head(paths), relativePath |-> r.relativePath,
                      backend |-> r.backend]>>)
             \o ResolveBatch(ms, Tail(paths))

\* backendPaths of one backend: the entries of the group, in input order
RECURSIVE BackendPaths(_, _)
BackendPaths(resolved, backend) ==
    IF Len(resolved) = 0 THEN << >>
    ELSE (IF Head(resolved).backend = backend THEN <<Head(resolved)>> ELSE << >>)
         \o BackendPaths(Tail(resolved), backend)

\* backendPaths.map(p => p.relativePath)
RECURSIVE RelativePaths(_)
RelativePaths(backendPaths) ==
    IF Len(backendPaths) = 0 THEN << >>
    ELSE <<Head(backendPaths).relativePath>> \o RelativePaths(Tail(backendPaths))

\* The loop that copies the batch results of one backend into results
RECURSIVE CollectBatch(_, _, _)
CollectBatch(backendPaths, batchResults, results) ==
    IF Len(backendPaths) = 0 THEN results
    ELSE LET e == Head(backendPaths)
         IN  CollectBatch(Tail(backendPaths), batchResults,
                 IF e.relativePath \in DOMAIN batchResults
                 THEN StorePut(results, e.relativePath, batchResults[e.relativePath])
                 ELSE results)

\* A readBinaryBatch of the service that keys its results by the relative path
svcReadBinaryBatchRelativeKeys(ms, f, paths) ==
    LET resolved == ResolveBatch(ms, paths)
        g1 == BackendPaths(resolved, "B1")
        g2 == BackendPaths(resolved, "B2")
        r1 == CollectBatch(g1, readBinaryBatch(f, RelativePaths(g1)), << >>)
    IN  CollectBatch(g2, readBinaryBatch(f, RelativePaths(g2)), r1)

\* The loop that copies the batch results of one backend into results, keyed
\* by the path of the caller
RECURSIVE CollectResults(_, _, _)
CollectResults(backendPaths, batchResults, results) ==
    IF Len(backendPaths) = 0 THEN results
    ELSE LET e == Head(backendPaths)
         IN  CollectResults(Tail(backendPaths), batchResults,
                 IF e.relativePath \in DOMAIN batchResults
                 THEN StorePut(results, e.path, batchResults[e.relativePath])
                 ELSE results)

\* FileSystemService.readBinaryBatch on backends that have readBinaryBatch (both
\* backends of the repository do): the Map it resolves with. The groups are read
\* one backend after the other; their keys never collide, so the order of the
\* groups does not show in the result.
svcReadBinaryBatch(ms, f, paths) ==
    LET resolved == ResolveBatch(ms, paths)
        g1 == BackendPaths(resolved, "B1")
        g2 == BackendPaths(resolved, "B2")
        r1 == CollectResults(g1, readBinaryBatch(f, RelativePaths(g1)), << >>)
    IN  CollectResults(g2, readBinaryBatch(f, RelativePaths(g2)), r1)

-----------------------------------------------------------------------------
(* FileSystemService: subscribers, events, and the operations as a caller   *)
(* sees them (the option silent included; createParents is left unset)      *)

\* The handler functions callers subscribe, and the ones among them that throw
\* when they are called
Handlers == {"h1", "h2"}
ThrowingHandlers == {"h2"}

\* FileSystemService.subscribe: Set.add keeps a handler that is there in its place
subscribe(handlers, handler) ==
    IF \E i \in 1..Len(handlers) : handlers[i] = handler THEN handlers
    ELSE Append(handlers, handler)

\* The callback subscribe returns: Set.delete
RECURSIVE unsubscribe(_, _)
unsubscribe(handlers, handler) ==
    IF Len(handlers) = 0 THEN << >>
    ELSE IF Head(handlers) = handler THEN Tail(handlers)
    ELSE <<Head(handlers)>> \o unsubscribe(Tail(handlers), handler)

\* FileSystemService.emit: Set.forEach calls the handlers in insertion order; an
\* exception thrown by a handler ends the forEach and leaves emit.  delivered
\* lists the calls made, the throwing one included.
RECURSIVE emit(_, _)
emit(handlers, event) ==
    IF Len(handlers) = 0 THEN [delivered |-> << >>, err |-> "none"]
    ELSE LET call == [handler |-> Head(handlers), event |-> event]
         IN  IF Head(handlers) \in ThrowingHandlers
             THEN [delivered |-> <<call>>, err |-> "HandlerError"]
             ELSE LET rest == emit(Tail(handlers), event)
                  IN  [delivered |-> <<call>> \o rest.delivered, err |-> rest.err]

\* The emit calls of one operation, in order; the exception of one ends the operation
RECURSIVE EmitAll(_, _)
EmitAll(handlers, events) ==
    IF Len(events) = 0 THEN [emitted |-> << >>, delivered |-> << >>, err |-> "none"]
    ELSE LET e == emit(handlers, Head(events))
         IN  IF e.err # "none"
             THEN [emitted |-> <<Head(events)>>, delivered |-> e.delivered, err |-> e.err]
             ELSE LET rest == EmitAll(handlers, Tail(events))
                  IN  [emitted |-> <<Head(events)>> \o rest.emitted,
                       delivered |-> e.delivered \o rest.delivered, err |-> rest.err]

\* The outcome of an operation that emits nothing
Quiet(err, f, d, value) ==
    [err |-> err, files |-> f, dirs |-> d, value |-> value,
     emitted |-> << >>, delivered |-> << >>]

\* The outcome of an operation whose backend part gave r = [err, files, dirs] and
\* which then emits events: a failed backend part emits nothing
WithEvents(r, handlers, events) ==
    IF r.err # "none" THEN Quiet(r.err, r.files, r.dirs, << >>)
    ELSE LET e == EmitAll(handlers, events)
         IN  [err |-> e.err, files |-> r.files, dirs |-> r.dirs, value |-> << >>,
              emitted |-> e.emitted, delivered |-> e.delivered]

\* FileSystemService.stat
svcStat(ms, f, d, path) ==
    LET r == getBackendForPath(ms, path)
    IN  IF r.err # "none"
        THEN [err |-> r.err, size |-> 0, isDirectory |-> FALSE, isFile |-> FALSE, mtime |-> 0]
        ELSE stat(f, d, r.relativePath)

\* FileSystemService.rmdir
svcRmdir(ms, f, d, path, recursive) ==
    LET r == getBackendForPath(ms, path)
    IN  IF r.err # "none" THEN NoMountResult(f, d)
        ELSE LET w == rmdir(f, d, r.relativePath, recursive)
             IN  [err |-> "none", files |-> w.files, dirs |-> w.dirs]

\* FileSystemService.copyFile
svcCopyFile(ms, f, d, src, dest, t) ==
    LET srcBackend == getBackendForPath(ms, src)
        destBackend == getBackendForPath(ms, dest)
    IN  IF srcBackend.err # "none" \/ destBackend.err # "none" THEN NoMountResult(f, d)
        ELSE IF srcBackend.backend # destBackend.backend
        THEN LET content == readBinary(f, srcBackend.relativePath)
             IN  IF content.err # "none" THEN [err |-> content.err, files |-> f, dirs |-> d]
                 ELSE LET w == writeBinary(f, d, destBackend.relativePath, content.value, t)
                      IN  [err |-> "none", files |-> w.files, dirs |-> w.dirs]
        ELSE copyFile(f, d, srcBackend.relativePath, destBackend.relativePath, t)

\* The name field of a backend instance: every instance is an IndexedDBBackend
BackendName(backend) == "indexeddb"

\* isMounted that looks at the table and not at the path
isMountedAnyMount(ms, path) == Len(ms) > 0

\* FileSystemService.isMounted
isMounted(ms, path) == getBackendForPath(ms, path).err = "none"

\* FileSystemService.getBackendType: "null" stands for null
getBackendType(ms, path) ==
    LET r == getBackendForPath(ms, path)
    IN  IF r.err # "none" THEN "null" ELSE BackendName(r.backend)

\* The event object an operation passes to emit
Event(type, path) == [type |-> type, path |-> svcNormalizePath(path)]

\* FileSystemService.readFile, readBinary, stat, readdir as the caller sees them
fsReadFile(ms, f, d, path) ==
    LET r == svcReadFile(ms, f, path) IN Quiet(r.err, f, d, r.value)

fsReadBinary(ms, f, d, path) ==
    LET r == svcReadBinary(ms, f, path) IN Quiet(r.err, f, d, r.value)

fsStat(ms, f, d, path) ==
    LET r == svcStat(ms, f, d, path) IN Quiet(r.err, f, d, r)

fsReaddir(ms, f, d, path) ==
    LET r == svcReaddir(ms, f, d, path) IN Quiet(r.err, f, d, r.entries)

\* FileSystemService.writeFile: the event is emitted when the call is not silent
\* and a handler is subscribed; its type comes from exists() before the write
fsWriteFile(ms, f, d, handlers, path, content, silent, t) ==
    LET shouldEmit == ~silent /\ Len(handlers) > 0
        existed == IF shouldEmit THEN svcExists(ms, f, d, path) ELSE FALSE
    IN  WithEvents(svcWriteFile(ms, f, d, path, content, t), handlers,
            IF shouldEmit
            THEN <<Event(IF existed THEN "file:modified" ELSE "file:created", path)>>
            ELSE << >>)

\* FileSystemService.writeBinary
fsWriteBinary(ms, f, d, handlers, path, content, silent, t) ==
    LET shouldEmit == ~silent /\ Len(handlers) > 0
        existed == IF shouldEmit THEN svcExists(ms, f, d, path) ELSE FALSE
    IN  WithEvents(svcWriteBinary(ms, f, d, path, content, t), handlers,
            IF shouldEmit
            THEN <<Event(IF existed THEN "file:modified" ELSE "file:created", path)>>
            ELSE << >>)

\* FileSystemService.deleteFile
fsDeleteFile(ms, f, d, handlers, path, silent) ==
    WithEvents(svcDeleteFile(ms, f, d, path), handlers,
        IF ~silent THEN <<Event("file:deleted", path)>> ELSE << >>)

\* FileSystemService.mkdir
fsMkdir(ms, f, d, handlers, path, silent, t) ==
    WithEvents(svcMkdir(ms, f, d, path, t), handlers,
        IF ~silent THEN <<Event("directory:created", path)>> ELSE << >>)

\* FileSystemService.rmdir
fsRmdir(ms, f, d, handlers, path, recursive, silent) ==
    WithEvents(svcRmdir(ms, f, d, path, recursive), handlers,
        IF ~silent THEN <<Event("directory:deleted", path)>> ELSE << >>)

\* FileSystemService.rename
fsRename(ms, f, d, handlers, oldPath, newPath, t) ==
    WithEvents(svcRename(ms, f, d, oldPath, newPath, t), handlers,
        <<Event("file:deleted", oldPath), Event("file:created", newPath)>>)

\* FileSystemService.copyFile
fsCopyFile(ms, f, d, handlers, src, dest, t) ==
    WithEvents(svcCopyFile(ms, f, d, src, dest, t), handlers,
        <<Event("file:created", dest)>>)

\* The first loop of FileSystemService.writeBinaryBatch: the entries whose path
\* resolves, each with its backend and its relative path; the others are skipped
RECURSIVE ResolveEntries(_, _)
ResolveEntries(ms, entries) ==
    IF Len(entries) = 0 THEN << >>
    ELSE LET r == getBackendForPath(ms, Head(entries).path)
         IN  (IF r.err # "none" THEN << >>
              ELSE <<[backend |-> r.backend,
                      entry |-> [path |-> r.relativePath, content |-> Head(entries).content]]>>)
             \o ResolveEntries(ms, Tail(entries))

\* The keys of entriesByBackend in insertion order
RECURSIVE BackendOrder(_, _)
BackendOrder(resolved, seen) ==
    IF Len(resolved) = 0 THEN << >>
    ELSE IF Head(resolved).backend \in seen THEN BackendOrder(Tail(resolved), seen)
    ELSE <<Head(resolved).backend>>
         \o BackendOrder(Tail(resolved), seen \cup {Head(resolved).backend})

\* entriesByBackend.get(backend)
RECURSIVE BackendEntries(_, _)
BackendEntries(resolved, backend) ==
    IF Len(resolved) = 0 THEN << >>
    ELSE (IF Head(resolved).backend = backend THEN <<Head(resolved).entry>> ELSE << >>)
         \o BackendEntries(Tail(resolved), backend)

\* The onProgress wrapper: (c, _t) => onProgress(startCompleted + c, total)
RECURSIVE ShiftReports(_, _, _)
ShiftReports(reports, startCompleted, total) ==
    IF Len(reports) = 0 THEN << >>
    ELSE << <<startCompleted + Head(reports)[1], total>> >>
         \o ShiftReports(Tail(reports), startCompleted, total)

\* The number of chunks of a backend call
ChunkCount(n, concurrency) == (n + concurrency - 1) \div concurrency

\* The loop over entriesByBackend: failAt counts the chunks of the whole call, and
\* a backend call that rejects ends the loop
RECURSIVE BackendLoop(_, _, _, _, _, _, _, _, _, _)
BackendLoop(f, d, resolved, order, createParents, concurrency, failAt, completed, total, t) ==
    IF Len(order) = 0 THEN [err |-> "none", files |-> f, dirs |-> d, reports |-> << >>]
    ELSE LET backendEntries == BackendEntries(resolved, Head(order))
             chunks == ChunkCount(Len(backendEntries), concurrency)
             w == writeBinaryBatchRun(f, d, backendEntries, createParents, concurrency,
                                      IF failAt >= 1 /\ failAt <= chunks THEN failAt ELSE 0, t)
             shifted == ShiftReports(w.reports, completed, total)
         IN  IF w.err # "none"
             THEN [err |-> w.err, files |-> w.files, dirs |-> w.dirs, reports |-> shifted]
             ELSE LET rest == BackendLoop(w.files, w.dirs, resolved, Tail(order),
                                          createParents, concurrency,
                                          IF failAt > chunks THEN failAt - chunks ELSE 0,
                                          completed + Len(backendEntries), total, t)
                  IN  [err |-> rest.err, files |-> rest.files, dirs |-> rest.dirs,
                       reports |-> shifted \o rest.reports]

\* The events of a batch: file:created for every entry of the input
RECURSIVE BatchEvents(_)
BatchEvents(entries) ==
    IF Len(entries) = 0 THEN << >>
    ELSE <<Event("file:created", Head(entries).path)>> \o BatchEvents(Tail(entries))

\* FileSystemService.writeBinaryBatch on backends that have writeBinaryBatch
svcWriteBinaryBatch(ms, f, d, handlers, entries, createParents, concurrency, silent, failAt, t) ==
    LET total == Len(entries)
    IN  IF total = 0
        THEN [err |-> "none", files |-> f, dirs |-> d, value |-> << >>,
              emitted |-> << >>, delivered |-> << >>, reports |-> << <<0, 0>> >>]
        ELSE LET resolved == ResolveEntries(ms, entries)
                 w == BackendLoop(f, d, resolved, BackendOrder(resolved, {}), createParents,
                                  concurrency, failAt, 0, total, t)
             IN  WithEvents(w, handlers,
                            IF ~silent /\ Len(handlers) > 0 THEN BatchEvents(entries)
                            ELSE << >>)
                 @@ [reports |-> w.reports]

-----------------------------------------------------------------------------
(* The inputs of the model *)

\* Backend instances handed to mount(); every one is an IndexedDBBackend, and
\* every IndexedDBBackend opens the same database IDB_NAME, so all of them read
\* and write the same two object stores.
Backends == {"B1", "B2"}

P_root == <<"/">>
P_a == <<"/", "a">>
P_b == <<"/", "b">>
P_ab == <<"/", "a", "b">>
P_a_b == <<"/", "a", "/", "b">>
P_a_a == <<"/", "a", "/", "a">>
P_b_a == <<"/", "b", "/", "a">>
P_a_b_a == <<"/", "a", "/", "b", "/", "a">>
P_ab_a == <<"/", "a", "b", "/", "a">>
P_a_sl == <<"/", "a", "/">>
P_a_sl_sl == <<"/", "a", "/", "/">>
P_sl_sl_a == <<"/", "/", "a">>
P_rel_a == <<"a">>
P_rel_a_b == <<"a", "/", "b">>
P_a_sl_sl_b == <<"/", "a", "/", "/", "b">>
P_a_b_sl == <<"/", "a", "/", "b", "/">>
P_a_b_b == <<"/", "a", "/", "b", "/", "b">>
P_a_sl_sl_a == <<"/", "a", "/", "/", "a">>

\* Paths handed to mount() and unmount(), several spellings of one location included
MountInputs == {P_root, P_a, P_rel_a, P_a_sl, P_b, P_a_b, P_ab}

\* Paths handed to the operations that resolve a path
ResolveInputs ==
    {P_root, P_a, P_a_sl, P_b, P_ab, P_a_b, P_a_a, P_b_a, P_a_b_a, P_ab_a,
     P_rel_a_b, P_a_sl_sl_b, P_a_b_sl}

\* Paths handed to the backend directly: a tree three levels deep, the root, and
\* spellings the normalizer has to canonicalize
StorePaths == {P_root, P_a, P_a_a, P_a_b, P_a_b_a, P_a_sl_sl, P_rel_a_b}

\* Paths handed to the service
ServicePaths == {P_a, P_a_a, P_a_b, P_a_b_a, P_b_a}

\* Mount tables the service operations run on, each built by two mount() calls:
\* /a with /b, and /a with /a/b, on one backend instance or on two
ServiceTables ==
    {mount(mount(<< >>, P_a, b1), p2, b2) : p2 \in {P_b, P_a_b}, b1 \in Backends, b2 \in Backends}

\* Text contents (the second holds a lone surrogate) and binary contents
Texts == {<<"x">>, <<"hs">>}
Bins == {<<120>>, <<255>>}

\* The number of operations of a run; Date.now() advances by one per operation
MaxOps == 3

NoLast ==
    [op |-> "none", path |-> << >>, path2 |-> << >>, content |-> << >>,
     recursive |-> FALSE, err |-> "none", backend |-> "none",
     relativePath |-> << >>, mount |-> 0, built |-> TRUE,
     paths |-> << >>, result |-> << >>, createParents |-> TRUE, ioError |-> FALSE,
     repeated |-> FALSE, silent |-> FALSE, emitted |-> << >>, delivered |-> << >>,
     reports |-> << >>, concurrency |-> 0, failAt |-> 0]

\* Every operation run so far was a mkdir, a writeFile or a writeBinary: the
\* store holds a tree built with these alone
TreeBuilt == last.built /\ last.op \in {"none", "writeFile", "writeBinary", "mkdir"}

-----------------------------------------------------------------------------
(* The mount table alone: mount, unmount and resolution *)

InitEmpty ==
    /\ mounts = << >>
    /\ files = << >>
    /\ dirs = << >>
    /\ now = 0
    /\ eventHandlers = << >>
    /\ inflight = << >>
    /\ last = NoLast

MountOp(p, b) ==
    /\ mounts' = mount(mounts, p, b)
    /\ last' = [NoLast EXCEPT !.op = "mount", !.path = p, !.backend = b]
    /\ UNCHANGED <<files, dirs, now, eventHandlers, inflight>>

UnmountOp(p) ==
    /\ mounts' = unmount(mounts, p)
    /\ last' = [NoLast EXCEPT !.op = "unmount", !.path = p,
                              !.mount = MountAt(mounts, normalizeMountPath(p))]
    /\ UNCHANGED <<files, dirs, now, eventHandlers, inflight>>

\* isMounted / getBackendType / the first statement of every file operation
ResolveOp(p) ==
    /\ LET r == getBackendForPath(mounts, p)
       IN  last' = [NoLast EXCEPT !.op = "resolve", !.path = p, !.err = r.err,
                                  !.backend = r.backend, !.relativePath = r.relativePath,
                                  !.mount = r.mount]
    /\ UNCHANGED <<mounts, files, dirs, now, eventHandlers, inflight>>

NextMount ==
    \/ \E p \in MountInputs, b \in Backends : MountOp(p, b)
    \/ \E p \in MountInputs : UnmountOp(p)
    \/ \E p \in ResolveInputs : ResolveOp(p)

SpecMount == InitEmpty /\ [][NextMount]_vars

\* The mounts of the table, as a set
MountSet == {mounts[i] : i \in 1..Len(mounts)}

\* p is a prefix of s, as sequences
IsPrefix(p, s) == Len(p) <= Len(s) /\ \A i \in 1..Len(p) : p[i] = s[i]

\* Mount m covers the location of path: the segments of its mountPath are the
\* leading segments of the path
Covers(m, path) == IsPrefix(SplitSegments(m.path), SplitSegments(path))

\* C1: resolution returns the backend of the matching mount whose mountPath is
\* longest, whatever the order in which the mounts were added; it fails exactly
\* when no mount matches.
C1_LongestPrefixWins ==
    last.op = "resolve" =>
        LET matching == {m \in MountSet : Covers(m, last.path)}
        IN  /\ (last.err = "NoMount") <=> (matching = {})
            /\ last.err = "none" =>
                 \E m \in matching :
                    /\ \A o \in matching : Len(o.path) <= Len(m.path)
                    /\ last.backend = m.backend

\* The case of C1: /a and /a/b are both mounted, on different backends, and a path
\* below /a/b was resolved
C1_Witness ==
    /\ last.op = "resolve"
    /\ last.path = P_a_b_a
    /\ \E m1, m2 \in MountSet :
          /\ m1.path = P_a_sl /\ m2.path = <<"/", "a", "/", "b", "/">>
          /\ m1.backend # m2.backend
          /\ last.backend = m2.backend

\* The original wording of C2: besides matching on whole segments, the relative
\* path appended to the mount path without its trailing slash always gives back
\* the normalized path.
C2_Original ==
    (last.op = "resolve" /\ last.err = "none") =>
        LET M == mounts[last.mount].path
            n == svcNormalizePath(last.path)
        IN  /\ (n = DropLast(M) \/ StartsWith(n, M))
            /\ Covers(mounts[last.mount], last.path)
            /\ StartsWith(last.relativePath, <<SL>>)
            /\ DropLast(M) \o last.relativePath = n

\* C2 (amended): a mount serves a path only on whole path segments; the relative
\* path starts with '/'; it is '/' when the normalized path is the mount path
\* without its trailing slash, and otherwise the mount path without its trailing
\* slash followed by the relative path is the normalized path.
C2_WholeSegments ==
    (last.op = "resolve" /\ last.err = "none") =>
        LET M == mounts[last.mount].path
            n == svcNormalizePath(last.path)
        IN  /\ (n = DropLast(M) \/ StartsWith(n, M))
            /\ Covers(mounts[last.mount], last.path)
            /\ StartsWith(last.relativePath, <<SL>>)
            /\ IF n = DropLast(M)
               THEN last.relativePath = <<SL>>
               ELSE DropLast(M) \o last.relativePath = n

\* The case of C2: / and /a are both mounted and /ab/a was resolved; it was served
\* by the mount at /, not by the mount at /a whose characters it starts with
C2_Witness ==
    /\ last.op = "resolve"
    /\ last.path = P_ab_a
    /\ last.err = "none"
    /\ \E m \in MountSet : m.path = P_a_sl
    /\ mounts[last.mount].path = P_root
    /\ last.relativePath = P_ab_a

-----------------------------------------------------------------------------
(* The flat store, called directly *)

WriteFileOp(p, c) ==
    /\ now < MaxOps
    /\ LET w == writeFile(files, dirs, p, c, now)
       IN  files' = w.files /\ dirs' = w.dirs
    /\ now' = now + 1
    /\ last' = [NoLast EXCEPT !.op = "writeFile", !.path = p, !.content = c,
                               !.built = TreeBuilt]
    /\ UNCHANGED <<mounts, eventHandlers, inflight>>

WriteBinaryOp(p, c) ==
    /\ now < MaxOps
    /\ LET w == writeBinary(files, dirs, p, c, now)
       IN  files' = w.files /\ dirs' = w.dirs
    /\ now' = now + 1
    /\ last' = [NoLast EXCEPT !.op = "writeBinary", !.path = p, !.content = c,
                               !.built = TreeBuilt]
    /\ UNCHANGED <<mounts, eventHandlers, inflight>>

MkdirOp(p) ==
    /\ now < MaxOps
    /\ dirs' = mkdir(dirs, p, now)
    /\ now' = now + 1
    /\ last' = [NoLast EXCEPT !.op = "mkdir", !.path = p,
                               !.built = TreeBuilt,
                               !.repeated = (last.op = "mkdir" /\ last.path = p)]
    /\ UNCHANGED <<mounts, files, eventHandlers, inflight>>

RmdirOp(p, recursive) ==
    /\ now < MaxOps
    /\ LET r == rmdir(files, dirs, p, recursive)
       IN  files' = r.files /\ dirs' = r.dirs
    /\ now' = now + 1
    /\ last' = [NoLast EXCEPT !.op = "rmdir", !.path = p, !.recursive = recursive,
                               !.built = TreeBuilt]
    /\ UNCHANGED <<mounts, eventHandlers, inflight>>

DeleteFileOp(p) ==
    /\ now < MaxOps
    /\ files' = deleteFile(files, p)
    /\ now' = now + 1
    /\ last' = [NoLast EXCEPT !.op = "deleteFile", !.path = p,
                               !.built = TreeBuilt]
    /\ UNCHANGED <<mounts, dirs, eventHandlers, inflight>>

RenameOp(p, q) ==
    /\ now < MaxOps
    /\ LET r == rename(files, dirs, p, q, now)
       IN  /\ files' = r.files /\ dirs' = r.dirs
           /\ last' = [NoLast EXCEPT !.op = "rename", !.path = p, !.path2 = q,
                                      !.err = r.err, !.built = FALSE]
    /\ now' = now + 1
    /\ UNCHANGED <<mounts, eventHandlers, inflight>>

NextStore ==
    \/ \E p \in StorePaths, c \in Texts : WriteFileOp(p, c)
    \/ \E p \in StorePaths, c \in Bins : WriteBinaryOp(p, c)
    \/ \E p \in StorePaths : MkdirOp(p)
    \/ \E p \in StorePaths, recursive \in BOOLEAN : RmdirOp(p, recursive)
    \/ \E p \in StorePaths : DeleteFileOp(p)

SpecStore == InitEmpty /\ [][NextStore]_vars

\* The backend with rename among its operations
NextRename ==
    \/ NextStore
    \/ \E p \in StorePaths, q \in StorePaths : RenameOp(p, q)

SpecRename == InitEmpty /\ [][NextRename]_vars

\* The canonical form of a path: '/' before each of its non-empty segments, and
\* '/' alone for the root
RECURSIVE JoinSegments(_)
JoinSegments(segs) ==
    IF Len(segs) = 0 THEN << >>
    ELSE <<SL>> \o Head(segs) \o JoinSegments(Tail(segs))

Canonical(path) ==
    IF Len(SplitSegments(path)) = 0 THEN <<SL>> ELSE JoinSegments(SplitSegments(path))

\* The path itself and its ancestors below the root, each in canonical form
AncestorChain(path) ==
    LET segs == SplitSegments(path)
    IN  {JoinSegments(SubSeq(segs, 1, i)) : i \in 1..Len(segs)}

\* The original wording of C4: exists(P) is true right after a writeFile, a
\* writeBinary or a mkdir of P, only such a call that touches P makes it true, and
\* it is false again after deleteFile(P) of a file or rmdir(P) of an empty directory.
C4_Original ==
    [][ /\ last'.op \in {"writeFile", "writeBinary", "mkdir"} =>
              exists(files', dirs', last'.path)
        /\ \A P \in StorePaths :
              (~exists(files, dirs, P) /\ exists(files', dirs', P)) =>
                  /\ last'.op \in {"writeFile", "writeBinary", "mkdir"}
                  /\ Canonical(P) \in AncestorChain(last'.path) \cup {Canonical(last'.path)}
        /\ (last'.op = "deleteFile" /\ normalizePath(last'.path) \in DOMAIN files) =>
              ~exists(files', dirs', last'.path)
        /\ (last'.op = "rmdir" /\ normalizePath(last'.path) \in DOMAIN dirs
              /\ Len(readdir(files, dirs, last'.path)) = 0) =>
              ~exists(files', dirs', last'.path)
      ]_vars

\* C5: after mkdir(P) the path and every ancestor below the root have a
\* directory record and exist; the records created are exactly the missing ones,
\* and the records that were there, their ctime included, and every file record
\* are as before.
C5_MkdirChain ==
    [][ last'.op = "mkdir" =>
          /\ \A k \in AncestorChain(last'.path) :
                k \in DOMAIN dirs' /\ exists(files', dirs', k)
          /\ DOMAIN dirs' = (DOMAIN dirs) \cup AncestorChain(last'.path)
          /\ \A k \in DOMAIN dirs : dirs'[k] = dirs[k]
          /\ \A k \in (DOMAIN dirs') \ (DOMAIN dirs) : dirs'[k].ctime = now
          /\ files' = files
      ]_vars

\* The case of C5: mkdir('/a/b/a') ran when /a had a record from an earlier
\* call; the record of /a kept its ctime and the two missing ones were created
C5_Witness ==
    /\ last.op = "mkdir"
    /\ last.path = P_a_b_a
    /\ {P_a, P_a_b, P_a_b_a} \subseteq DOMAIN dirs
    /\ dirs[P_a].ctime < dirs[P_a_b].ctime
    /\ dirs[P_a_b].ctime = dirs[P_a_b_a].ctime

\* The names of the direct children of directory P in a store: the keys made of
\* P, one '/', and one non-empty segment
ChildNames(store, P) ==
    LET prefix == IF P = <<SL>> THEN <<SL>> ELSE P \o <<SL>>
    IN  {SliceFrom(k, Len(prefix)) :
            k \in {key \in DOMAIN store :
                      /\ StartsWith(key, prefix)
                      /\ Len(key) > Len(prefix)
                      /\ \A i \in (Len(prefix) + 1)..Len(key) : key[i] # SL}}

\* What readdir(P) has to list: an entry per child file and per child directory
ExpectedEntries(P) ==
    LET prefix == IF P = <<SL>> THEN <<SL>> ELSE P \o <<SL>>
    IN  {[name |-> n, path |-> prefix \o n, isDirectory |-> FALSE] : n \in ChildNames(files, P)}
        \cup
        {[name |-> n, path |-> prefix \o n, isDirectory |-> TRUE] : n \in ChildNames(dirs, P)}

\* The paths of the model that are in canonical form
CanonicalStorePaths == {P \in StorePaths : P = Canonical(P)}

\* The original wording of C6, on canonical paths: on a tree built with mkdir,
\* writeFile and writeBinary, readdir(P) lists one entry per child file and per
\* child directory of P, nothing else, no name twice, directories before files
\* and by name within each group.
C6_Original ==
    TreeBuilt =>
        \A P \in CanonicalStorePaths :
            LET es == readdir(files, dirs, P)
            IN  /\ {es[i] : i \in 1..Len(es)} = ExpectedEntries(P)
                /\ \A i, j \in 1..Len(es) : i # j => es[i].name # es[j].name
                /\ \A i, j \in 1..Len(es) :
                      i < j => /\ es[i].isDirectory \/ ~es[j].isDirectory
                               /\ es[i].isDirectory = es[j].isDirectory =>
                                     KeyLess(es[i].name, es[j].name)

\* Key k is the canonical path P or lies below it
AtOrBelow(k, P) == IsPrefix(SplitSegments(P), SplitSegments(k))

\* The original wording of C7, for a directory P below the root given in
\* canonical form: on a tree built with mkdir, writeFile and writeBinary,
\* rmdir(P, {recursive: true}) leaves no file and no directory that exists at P
\* or below it.
C7_Original ==
    [][ (/\ last'.op = "rmdir" /\ last'.recursive
         /\ TreeBuilt
         /\ last'.path \in CanonicalStorePaths \ {P_root}
         /\ last'.path \in DOMAIN dirs
         /\ last'.path \notin DOMAIN files) =>
            /\ ~exists(files', dirs', last'.path)
            /\ \A k \in (DOMAIN files) \cup (DOMAIN dirs) :
                  AtOrBelow(k, last'.path) => ~exists(files', dirs', k)
      ]_vars

\* The original wording of C10: rename of a path that has a directory record and
\* no file record fails with InvalidOperation and changes no record.
C10_Original ==
    [][ (/\ last'.op = "rename"
         /\ normalizePath(last'.path) \in DOMAIN dirs
         /\ normalizePath(last'.path) \notin DOMAIN files) =>
            /\ last'.err = "InvalidOperation"
            /\ files' = files
            /\ dirs' = dirs
      ]_vars

-----------------------------------------------------------------------------
(* The service on mounted backends *)

InitService ==
    /\ mounts \in ServiceTables
    /\ files = << >>
    /\ dirs = << >>
    /\ now = 0
    /\ eventHandlers = << >>
    /\ inflight = << >>
    /\ last = NoLast

SvcWriteFileOp(p, c) ==
    /\ now < MaxOps
    /\ LET w == svcWriteFile(mounts, files, dirs, p, c, now)
       IN  /\ files' = w.files /\ dirs' = w.dirs
           /\ last' = [NoLast EXCEPT !.op = "svcWriteFile", !.path = p, !.content = c,
                                     !.err = w.err, !.built = TreeBuilt]
    /\ now' = now + 1
    /\ UNCHANGED <<mounts, eventHandlers, inflight>>

SvcWriteBinaryOp(p, c) ==
    /\ now < MaxOps
    /\ LET w == svcWriteBinary(mounts, files, dirs, p, c, now)
       IN  /\ files' = w.files /\ dirs' = w.dirs
           /\ last' = [NoLast EXCEPT !.op = "svcWriteBinary", !.path = p, !.content = c,
                                     !.err = w.err, !.built = TreeBuilt]
    /\ now' = now + 1
    /\ UNCHANGED <<mounts, eventHandlers, inflight>>

SvcMkdirOp(p) ==
    /\ now < MaxOps
    /\ LET w == svcMkdir(mounts, files, dirs, p, now)
       IN  /\ files' = w.files /\ dirs' = w.dirs
           /\ last' = [NoLast EXCEPT !.op = "svcMkdir", !.path = p, !.err = w.err,
                                     !.built = TreeBuilt]
    /\ now' = now + 1
    /\ UNCHANGED <<mounts, eventHandlers, inflight>>

SvcDeleteFileOp(p) ==
    /\ now < MaxOps
    /\ LET w == svcDeleteFile(mounts, files, dirs, p)
       IN  /\ files' = w.files /\ dirs' = w.dirs
           /\ last' = [NoLast EXCEPT !.op = "svcDeleteFile", !.path = p, !.err = w.err,
                                     !.built = FALSE]
    /\ now' = now + 1
    /\ UNCHANGED <<mounts, eventHandlers, inflight>>

SvcRenameOp(p, q) ==
    /\ now < MaxOps
    /\ LET w == svcRename(mounts, files, dirs, p, q, now)
       IN  /\ files' = w.files /\ dirs' = w.dirs
           /\ last' = [NoLast EXCEPT !.op = "svcRename", !.path = p, !.path2 = q,
                                     !.err = w.err, !.built = FALSE]
    /\ now' = now + 1
    /\ UNCHANGED <<mounts, eventHandlers, inflight>>

NextService ==
    \/ \E p \in ServicePaths, c \in Texts : SvcWriteFileOp(p, c)
    \/ \E p \in ServicePaths, c \in Bins : SvcWriteBinaryOp(p, c)
    \/ \E p \in ServicePaths : SvcMkdirOp(p)
    \/ \E p \in ServicePaths : SvcDeleteFileOp(p)
    \/ \E p \in ServicePaths, q \in ServicePaths : SvcRenameOp(p, q)

SpecService == InitService /\ [][NextService]_vars

\* The original wording of C8: every entry of service.readdir(P) carries the
\* canonical form of P, '/', and the entry's name as its path, and that path
\* exists for the service.
C8_Original ==
    \A P \in ServicePaths :
        LET r == svcReaddir(mounts, files, dirs, P)
        IN  r.err = "none" =>
              \A i \in 1..Len(r.entries) :
                 /\ r.entries[i].path =
                       (IF Canonical(P) = <<SL>> THEN <<SL>> ELSE Canonical(P) \o <<SL>>)
                          \o r.entries[i].name
                 /\ svcExists(mounts, files, dirs, r.entries[i].path)

\* The original wording of C9: service.rename(old, new) of an existing file, old
\* and new being different paths on two backends or on one, ends without error,
\* with old absent and new holding the bytes old held.
C9_Original ==
    [][ (/\ last'.op = "svcRename"
         /\ svcNormalizePath(last'.path) # svcNormalizePath(last'.path2)
         /\ getBackendForPath(mounts, last'.path2).err = "none"
         /\ svcReadBinary(mounts, files, last'.path).err = "none") =>
            /\ last'.err = "none"
            /\ ~svcExists(mounts', files', dirs', last'.path)
            /\ svcReadBinary(mounts', files', last'.path2) =
                  svcReadBinary(mounts, files, last'.path)
      ]_vars

-----------------------------------------------------------------------------
(* Writes, to the backend directly and through the service *)

\* The service after mount('/a', B1) and mount('/a/b', B2), the store empty
InitWrite ==
    /\ mounts = mount(mount(<< >>, P_a, "B1"), P_a_b, "B2")
    /\ files = << >>
    /\ dirs = << >>
    /\ now = 0
    /\ eventHandlers = << >>
    /\ inflight = << >>
    /\ last = NoLast

\* Paths written through the service: below /a, below /a/b, and below no mount
ServiceWritePaths == {P_a_a, P_a_b_a, P_b_a}

NextWrite ==
    \/ \E p \in StorePaths, c \in Texts : WriteFileOp(p, c)
    \/ \E p \in StorePaths, c \in Bins : WriteBinaryOp(p, c)
    \/ \E p \in ServiceWritePaths, c \in Texts : SvcWriteFileOp(p, c)
    \/ \E p \in ServiceWritePaths, c \in Bins : SvcWriteBinaryOp(p, c)

SpecWrite == InitWrite /\ [][NextWrite]_vars

\* C3: after writeFile(P, C) completes, readFile(P) yields C, and after
\* writeBinary(P, C) completes, readBinary(P) yields C, whatever P held before,
\* on the backend directly and through the service on a mounted path.
C3_WriteThenRead ==
    /\ last.op = "writeFile" =>
          readFile(files, last.path) = [err |-> "none", value |-> last.content]
    /\ last.op = "writeBinary" =>
          readBinary(files, last.path) = [err |-> "none", value |-> last.content]
    /\ (last.op = "svcWriteFile" /\ last.err = "none") =>
          svcReadFile(mounts, files, last.path) = [err |-> "none", value |-> last.content]
    /\ (last.op = "svcWriteBinary" /\ last.err = "none") =>
          svcReadBinary(mounts, files, last.path) = [err |-> "none", value |-> last.content]

\* The case of C3: a text write through the service replaced the record an
\* earlier write had put at the same key
C3_Witness ==
    /\ last.op = "svcWriteFile"
    /\ last.err = "none"
    /\ last.path = P_a_b_a
    /\ \E k \in DOMAIN files :
          /\ ~files[k].isBinary
          /\ files[k].content = last.content
          /\ files[k].ctime < files[k].mtime

-----------------------------------------------------------------------------
(* Batch reads through the service *)

\* The longest array handed to a batch operation
MaxBatch == 2

\* The arrays of at most n elements of S
SeqsUpTo(S, n) == UNION {[1..k -> S] : k \in 0..n}

\* Paths written through the service before a batch read: one below /a, one
\* below /a/b, one below no mount
BatchWritePaths == {P_a_a, P_a_b_b, P_b_a}

\* Paths handed to readBinaryBatch: the written ones, /a/a in a second spelling
BatchReadPaths == {P_a_sl_sl_a, P_a_b_b, P_b_a}

\* The text written before a batch read
BatchTexts == {<<"x">>}
BatchBins == {<<255>>}

SvcReadBinaryBatchOp(paths) ==
    /\ last' = [NoLast EXCEPT !.op = "svcReadBinaryBatch", !.paths = paths,
                               !.result = svcReadBinaryBatch(mounts, files, paths),
                               !.built = FALSE]
    /\ UNCHANGED <<mounts, files, dirs, now, eventHandlers, inflight>>

NextBatch ==
    \/ \E p \in BatchWritePaths, c \in BatchTexts : SvcWriteFileOp(p, c)
    \/ \E p \in BatchWritePaths, c \in BatchBins : SvcWriteBinaryOp(p, c)
    \/ \E p \in BatchWritePaths : SvcDeleteFileOp(p)
    \/ \E paths \in SeqsUpTo(BatchReadPaths, MaxBatch) : SvcReadBinaryBatchOp(paths)

SpecBatch == InitWrite /\ [][NextBatch]_vars

\* The bytes of the file record a service path names
RecordBytes(path) ==
    LET rec == files[normalizePath(getBackendForPath(mounts, path).relativePath)]
    IN  IF rec.isBinary THEN rec.content ELSE utf8Encode(rec.content)

\* C11: the map service.readBinaryBatch(paths) returns has as keys exactly the
\* input paths that resolve to a mount and name an existing file record, each as
\* it was passed in and mapped to the bytes of that record; the other paths are
\* left out, and an empty input gives an empty map.
C11_BatchRead ==
    last.op = "svcReadBinaryBatch" =>
        LET inputs == {last.paths[i] : i \in 1..Len(last.paths)}
            present == {p \in inputs :
                          /\ getBackendForPath(mounts, p).err = "none"
                          /\ normalizePath(getBackendForPath(mounts, p).relativePath)
                                \in DOMAIN files}
        IN  /\ DOMAIN last.result = present
            /\ \A p \in present : last.result[p] = RecordBytes(p)
            /\ last.paths = << >> => last.result = << >>

\* The case of C11: a batch of a path whose file exists, given in a spelling the
\* normalizer changes, and of a path below no mount returned the first alone
C11_Witness ==
    /\ last.op = "svcReadBinaryBatch"
    /\ last.paths = <<P_a_sl_sl_a, P_b_a>>
    /\ DOMAIN last.result = {P_a_sl_sl_a}
    /\ P_a_sl_sl_a \notin DOMAIN files

-----------------------------------------------------------------------------
(* The two stores as one namespace *)

\* The original wording of C12: in every state the backend operations reach, no
\* canonical path is the key of a file record and of a directory record.
C12_Original ==
    \A k \in (DOMAIN files) \cap (DOMAIN dirs) : k # Canonical(k)

-----------------------------------------------------------------------------
(* The three write operations of the backend *)

\* Paths of the entries of a batch, and the entries
BatchEntryPaths == {P_a, P_a_b_a}

BatchEntries == {[path |-> p, content |-> c] : p \in BatchEntryPaths, c \in Bins}

\* Paths handed to writeFile, writeBinary and deleteFile next to the batches
SingleWritePaths == {P_a, P_a_b_a, P_rel_a_b}

WriteBinaryBatchOp(entries, createParents) ==
    /\ now < MaxOps
    /\ LET w == writeBinaryBatch(files, dirs, entries, createParents, now)
       IN  files' = w.files /\ dirs' = w.dirs
    /\ now' = now + 1
    /\ last' = [NoLast EXCEPT !.op = "writeBinaryBatch", !.paths = entries,
                               !.createParents = createParents, !.built = FALSE]
    /\ UNCHANGED <<mounts, eventHandlers, inflight>>

NextWrites ==
    \/ \E p \in SingleWritePaths, c \in Texts : WriteFileOp(p, c)
    \/ \E p \in SingleWritePaths, c \in Bins : WriteBinaryOp(p, c)
    \/ \E p \in SingleWritePaths : DeleteFileOp(p)
    \/ \E entries \in SeqsUpTo(BatchEntries, MaxBatch), createParents \in BOOLEAN :
          WriteBinaryBatchOp(entries, createParents)

SpecWrites == InitEmpty /\ [][NextWrites]_vars

\* The keys a write operation puts a file record at
WrittenKeys(l) ==
    IF l.op = "writeBinaryBatch"
    THEN {normalizePath(l.paths[i].path) : i \in 1..Len(l.paths)}
    ELSE IF l.op \in {"writeFile", "writeBinary"} THEN {normalizePath(l.path)}
    ELSE {}

\* The original wording of C13: a write by writeFile, writeBinary or
\* writeBinaryBatch leaves the ctime of every file record that was there as it
\* was, gives every record it writes the time of the call as mtime, and moves
\* no mtime backwards.
C13_Original ==
    [][ last'.op \in {"writeFile", "writeBinary", "writeBinaryBatch"} =>
          /\ \A k \in (DOMAIN files) \cap (DOMAIN files') :
                /\ files'[k].ctime = files[k].ctime
                /\ files'[k].mtime >= files[k].mtime
          /\ \A k \in WrittenKeys(last') :
                /\ k \in DOMAIN files'
                /\ files'[k].mtime = now
                /\ k \notin DOMAIN files => files'[k].ctime = now
      ]_vars

-----------------------------------------------------------------------------
(* exists through the service, the lookup of the backend failing or not *)

SvcExistsOp(p, ioError) ==
    /\ LET r == svcExistsOutcome(mounts, files, dirs, p, ioError)
       IN  last' = [NoLast EXCEPT !.op = "svcExists", !.path = p, !.ioError = ioError,
                                  !.err = r.err, !.result = r.value, !.built = FALSE]
    /\ UNCHANGED <<mounts, files, dirs, now, eventHandlers, inflight>>

NextExists ==
    \/ \E p \in BatchWritePaths, c \in Texts : SvcWriteFileOp(p, c)
    \/ \E p \in BatchWritePaths : SvcDeleteFileOp(p)
    \/ \E p \in BatchReadPaths, ioError \in BOOLEAN : SvcExistsOp(p, ioError)

SpecExists == InitWrite /\ [][NextExists]_vars

\* The original wording of C14: service.exists(P) never rejects, and it completes
\* with false when P resolves to no mount or when the lookup of the backend
\* fails with an I/O error.
C14_Original ==
    last.op = "svcExists" =>
        /\ last.err = "none"
        /\ (getBackendForPath(mounts, last.path).err # "none" \/ last.ioError) =>
              last.result = FALSE

-----------------------------------------------------------------------------
(* OPFSBackend: the tree of native handles.  In the specification of this   *)
(* backend the variable dirs holds the directories below the root of the    *)
(* origin-private file system and files holds its files, both keyed by the  *)
(* names on the way from the root, each preceded by '/'.                    *)

\* OPFSBackend.normalizePath
opfsNormalizePath(path) ==
    LET n1 == IF StartsWith(path, <<SL>>) THEN SliceFrom(path, 1) ELSE path
        n2 == IF EndsWith(n1, <<SL>>) /\ Len(n1) > 0 THEN DropLast(n1) ELSE n1
    IN  CollapseSlashes(n2)

\* String.prototype.split('/'): every segment, the empty ones included
RECURSIVE SplitAll(_)
SplitAll(s) ==
    LET i == IndexOfSlash(s)
    IN  IF i = -1 THEN <<s>> ELSE <<SliceTo(s, i)>> \o SplitAll(SliceFrom(s, i + 1))

\* OPFSBackend.getPathParts
getPathParts(path) ==
    LET normalized == opfsNormalizePath(path)
    IN  IF Len(normalized) = 0 THEN << >> ELSE SplitAll(normalized)

\* The loop `current = await current.getDirectoryHandle(part, { create })` from
\* the directory keyed cur: an empty name is a TypeError, a name held by a file a
\* TypeMismatchError, a missing name a NotFoundError unless create is set
RECURSIVE WalkDirectories(_, _, _, _, _)
WalkDirectories(f, d, cur, parts, create) ==
    IF Len(parts) = 0 THEN [err |-> "none", dir |-> cur, dirs |-> d]
    ELSE LET child == cur \o <<SL>> \o Head(parts)
         IN  IF Len(Head(parts)) = 0 THEN [err |-> "TypeError", dir |-> cur, dirs |-> d]
             ELSE IF child \in DOMAIN d
                  THEN WalkDirectories(f, d, child, Tail(parts), create)
             ELSE IF child \in DOMAIN f
                  THEN [err |-> "TypeMismatch", dir |-> cur, dirs |-> d]
             ELSE IF create
                  THEN WalkDirectories(f, StorePut(d, child, [kind |-> "directory"]),
                                       child, Tail(parts), create)
             ELSE [err |-> "NotFound", dir |-> cur, dirs |-> d]

\* OPFSBackend.getParentAndName
getParentAndName(f, d, path, createParents) ==
    LET parts == getPathParts(path)
    IN  IF Len(parts) = 0
        THEN [err |-> "InvalidOperation", parent |-> << >>, name |-> << >>, dirs |-> d]
        ELSE LET w == WalkDirectories(f, d, << >>, DropLast(parts), createParents)
             IN  [err |-> w.err, parent |-> w.dir, name |-> parts[Len(parts)],
                  dirs |-> w.dirs]

\* FileSystemDirectoryHandle.removeEntry(name) without the recursive option: a
\* missing entry is a NotFoundError, a directory that holds entries an
\* InvalidModificationError
removeEntry(f, d, parent, name) ==
    LET key == parent \o <<SL>> \o name
        below == {k \in (DOMAIN f) \cup (DOMAIN d) : k # key /\ StartsWith(k, key \o <<SL>>)}
    IN  IF Len(name) = 0 THEN [err |-> "TypeError", files |-> f, dirs |-> d]
        ELSE IF key \in DOMAIN f
             THEN [err |-> "none", files |-> StoreDelete(f, key), dirs |-> d]
        ELSE IF key \in DOMAIN d
             THEN IF below # {}
                  THEN [err |-> "InvalidModification", files |-> f, dirs |-> d]
                  ELSE [err |-> "none", files |-> f, dirs |-> StoreDelete(d, key)]
        ELSE [err |-> "NotFound", files |-> f, dirs |-> d]

\* OPFSBackend.deleteFile
opfsDeleteFile(f, d, path) ==
    LET pn == getParentAndName(f, d, path, FALSE)
    IN  IF pn.err # "none" THEN [err |-> pn.err, files |-> f, dirs |-> d]
        ELSE removeEntry(f, d, pn.parent, pn.name)

\* OPFSBackend.writeFile: the parents are created on the way, then the file is
\* created or truncated and the text written as UTF-8
opfsWriteFile(f, d, path, content) ==
    LET pn == getParentAndName(f, d, path, TRUE)
        key == pn.parent \o <<SL>> \o pn.name
    IN  IF pn.err # "none" THEN [err |-> pn.err, files |-> f, dirs |-> pn.dirs]
        ELSE IF Len(pn.name) = 0 THEN [err |-> "TypeError", files |-> f, dirs |-> pn.dirs]
        ELSE IF key \in DOMAIN pn.dirs
             THEN [err |-> "TypeMismatch", files |-> f, dirs |-> pn.dirs]
        ELSE [err |-> "none",
              files |-> StorePut(f, key, [content |-> utf8Encode(content)]),
              dirs |-> pn.dirs]

\* OPFSBackend.mkdir
opfsMkdir(f, d, path) ==
    LET w == WalkDirectories(f, d, << >>, getPathParts(path), TRUE)
    IN  [err |-> w.err, files |-> f, dirs |-> w.dirs]

\* Paths handed to the OPFS backend
OpfsPaths == {P_root, P_a, P_a_b, P_a_b_a, P_rel_a_b, P_a_b_sl}

OpfsWriteFileOp(p, c) ==
    /\ now < MaxOps
    /\ LET w == opfsWriteFile(files, dirs, p, c)
       IN  /\ files' = w.files /\ dirs' = w.dirs
           /\ last' = [NoLast EXCEPT !.op = "opfsWriteFile", !.path = p, !.content = c,
                                      !.err = w.err, !.built = FALSE]
    /\ now' = now + 1
    /\ UNCHANGED <<mounts, eventHandlers, inflight>>

OpfsMkdirOp(p) ==
    /\ now < MaxOps
    /\ LET w == opfsMkdir(files, dirs, p)
       IN  /\ files' = w.files /\ dirs' = w.dirs
           /\ last' = [NoLast EXCEPT !.op = "opfsMkdir", !.path = p, !.err = w.err,
                                      !.built = FALSE]
    /\ now' = now + 1
    /\ UNCHANGED <<mounts, eventHandlers, inflight>>

OpfsDeleteFileOp(p) ==
    /\ now < MaxOps
    /\ LET w == opfsDeleteFile(files, dirs, p)
       IN  /\ files' = w.files /\ dirs' = w.dirs
           /\ last' = [NoLast EXCEPT !.op = "opfsDeleteFile", !.path = p, !.err = w.err,
                                      !.built = FALSE]
    /\ now' = now + 1
    /\ UNCHANGED <<mounts, eventHandlers, inflight>>

NextOPFS ==
    \/ \E p \in OpfsPaths, c \in Texts : OpfsWriteFileOp(p, c)
    \/ \E p \in OpfsPaths : OpfsMkdirOp(p)
    \/ \E p \in OpfsPaths : OpfsDeleteFileOp(p)

SpecOPFS == InitEmpty /\ [][NextOPFS]_vars

\* The original wording of C15: deleteFile(P) of a path that has no file record
\* completes without error and changes no record, on the IndexedDB backend, on
\* the OPFS backend (the parent directory of P being there or not), and through
\* the service on a mounted path.
C15_Original ==
    [][ /\ (last'.op = "deleteFile" /\ normalizePath(last'.path) \notin DOMAIN files) =>
              (last'.err = "none" /\ files' = files /\ dirs' = dirs)
        /\ (/\ last'.op = "svcDeleteFile"
            /\ getBackendForPath(mounts, last'.path).err = "none"
            /\ normalizePath(getBackendForPath(mounts, last'.path).relativePath)
                  \notin DOMAIN files) =>
              (last'.err = "none" /\ files' = files /\ dirs' = dirs)
        /\ (/\ last'.op = "opfsDeleteFile"
            /\ Len(getPathParts(last'.path)) > 0
            /\ JoinSegments(getPathParts(last'.path)) \notin DOMAIN files) =>
              (last'.err = "none" /\ files' = files /\ dirs' = dirs)
      ]_vars

-----------------------------------------------------------------------------
(* mkdir called twice *)

\* C16: a second mkdir(P) right after mkdir(P) leaves the file records and the
\* directory records, the ctime of each included, as the first call left them.
C16_MkdirTwice ==
    [][ (last.op = "mkdir" /\ last'.op = "mkdir" /\ last'.path = last.path) =>
            (last'.err = "none" /\ files' = files /\ dirs' = dirs)
      ]_vars

\* The case of C16: mkdir('/a/b/a') ran twice in a row on a store that had none
\* of the three directories; the records carry the time of the first call
C16_Witness ==
    /\ last.op = "mkdir"
    /\ last.repeated
    /\ last.path = P_a_b_a
    /\ \A k \in {P_a, P_a_b, P_a_b_a} : k \in DOMAIN dirs /\ dirs[k].ctime = now - 2

-----------------------------------------------------------------------------
(* The service as a caller sees it: mounts come and go, handlers subscribe   *)
(* and unsubscribe, and every operation reports its error and its events   *)

\* Paths handed to mount() and unmount() here: two spellings of /a
CallMountPaths == {P_a, P_a_sl}

\* Paths handed to the operations: two below /a and one that no mount covers
CallPaths == {P_a_a, P_a_b, P_b_a}

\* The contents written here
CallTexts == {<<"x">>}
CallBins == {<<120>>}

\* The number of store-changing calls of a run of the caller's view
MaxCalls == 2

SubscribeOp(h) ==
    /\ eventHandlers' = subscribe(eventHandlers, h)
    /\ last' = [NoLast EXCEPT !.op = "subscribe", !.content = <<h>>]
    /\ UNCHANGED <<mounts, files, dirs, now, inflight>>

UnsubscribeOp(h) ==
    /\ \E i \in 1..Len(eventHandlers) : eventHandlers[i] = h
    /\ eventHandlers' = unsubscribe(eventHandlers, h)
    /\ last' = [NoLast EXCEPT !.op = "unsubscribe", !.content = <<h>>]
    /\ UNCHANGED <<mounts, files, dirs, now, inflight>>

\* What an operation leaves behind: the store, and the record of the call
Called(op, p, q, silent, r) ==
    /\ files' = r.files
    /\ dirs' = r.dirs
    /\ last' = [NoLast EXCEPT !.op = op, !.path = p, !.path2 = q, !.silent = silent,
                              !.err = r.err, !.result = r.value,
                              !.emitted = r.emitted, !.delivered = r.delivered]
    /\ UNCHANGED <<mounts, eventHandlers, inflight>>

FsReadFileOp(p) ==
    /\ Called("fsReadFile", p, << >>, FALSE, fsReadFile(mounts, files, dirs, p))
    /\ UNCHANGED now

FsReadBinaryOp(p) ==
    /\ Called("fsReadBinary", p, << >>, FALSE, fsReadBinary(mounts, files, dirs, p))
    /\ UNCHANGED now

FsStatOp(p) ==
    /\ Called("fsStat", p, << >>, FALSE, fsStat(mounts, files, dirs, p))
    /\ UNCHANGED now

FsReaddirOp(p) ==
    /\ Called("fsReaddir", p, << >>, FALSE, fsReaddir(mounts, files, dirs, p))
    /\ UNCHANGED now

FsWriteFileOp(p, c, silent) ==
    /\ now < MaxCalls
    /\ now' = now + 1
    /\ Called("fsWriteFile", p, << >>, silent,
              fsWriteFile(mounts, files, dirs, eventHandlers, p, c, silent, now'))

FsWriteBinaryOp(p, c, silent) ==
    /\ now < MaxCalls
    /\ now' = now + 1
    /\ Called("fsWriteBinary", p, << >>, silent,
              fsWriteBinary(mounts, files, dirs, eventHandlers, p, c, silent, now'))

FsDeleteFileOp(p, silent) ==
    /\ now < MaxCalls
    /\ now' = now + 1
    /\ Called("fsDeleteFile", p, << >>, silent,
              fsDeleteFile(mounts, files, dirs, eventHandlers, p, silent))

FsMkdirOp(p, silent) ==
    /\ now < MaxCalls
    /\ now' = now + 1
    /\ Called("fsMkdir", p, << >>, silent,
              fsMkdir(mounts, files, dirs, eventHandlers, p, silent, now'))

FsRmdirOp(p, recursive, silent) ==
    /\ now < MaxCalls
    /\ now' = now + 1
    /\ Called("fsRmdir", p, << >>, silent,
              fsRmdir(mounts, files, dirs, eventHandlers, p, recursive, silent))

FsRenameOp(p, q) ==
    /\ now < MaxCalls
    /\ now' = now + 1
    /\ Called("fsRename", p, q, FALSE,
              fsRename(mounts, files, dirs, eventHandlers, p, q, now'))

FsCopyFileOp(p, q) ==
    /\ now < MaxCalls
    /\ now' = now + 1
    /\ Called("fsCopyFile", p, q, FALSE,
              fsCopyFile(mounts, files, dirs, eventHandlers, p, q, now'))

IsMountedOp(p) ==
    /\ last' = [NoLast EXCEPT !.op = "isMounted", !.path = p,
                              !.result = isMounted(mounts, p)]
    /\ UNCHANGED <<mounts, files, dirs, now, eventHandlers, inflight>>

GetBackendTypeOp(p) ==
    /\ last' = [NoLast EXCEPT !.op = "getBackendType", !.path = p,
                              !.result = getBackendType(mounts, p)]
    /\ UNCHANGED <<mounts, files, dirs, now, eventHandlers, inflight>>

NextCalls ==
    \/ \E p \in CallMountPaths : MountOp(p, "B1")
    \/ \E p \in CallMountPaths : UnmountOp(p)
    \/ \E h \in Handlers : SubscribeOp(h)
    \/ \E h \in Handlers : UnsubscribeOp(h)
    \/ \E p \in CallPaths : FsReadFileOp(p)
    \/ \E p \in CallPaths : FsReadBinaryOp(p)
    \/ \E p \in CallPaths : FsStatOp(p)
    \/ \E p \in CallPaths : FsReaddirOp(p)
    \/ \E p \in CallPaths, c \in CallTexts, silent \in BOOLEAN : FsWriteFileOp(p, c, silent)
    \/ \E p \in CallPaths, c \in CallBins, silent \in BOOLEAN : FsWriteBinaryOp(p, c, silent)
    \/ \E p \in CallPaths, silent \in BOOLEAN : FsDeleteFileOp(p, silent)
    \/ \E p \in CallPaths, silent \in BOOLEAN : FsMkdirOp(p, silent)
    \/ \E p \in CallPaths, recursive \in BOOLEAN, silent \in BOOLEAN :
           FsRmdirOp(p, recursive, silent)
    \/ \E p \in CallPaths, q \in CallPaths : FsRenameOp(p, q)
    \/ \E p \in CallPaths, q \in CallPaths : FsCopyFileOp(p, q)
    \/ \E p \in CallPaths \cup CallMountPaths : IsMountedOp(p)
    \/ \E p \in CallPaths \cup CallMountPaths : GetBackendTypeOp(p)

SpecCalls == InitEmpty /\ [][NextCalls]_vars

\* The operations that resolve a path first, and the paths each call resolves
PathOps ==
    {"fsReadFile", "fsReadBinary", "fsWriteFile", "fsWriteBinary", "fsStat", "fsMkdir",
     "fsRmdir", "fsReaddir", "fsDeleteFile", "fsRename", "fsCopyFile"}

\* No mount matches a path of the call l on the table ms
Unmatched(ms, l) ==
    \/ getBackendForPath(ms, l.path).err # "none"
    \/ /\ l.op \in {"fsRename", "fsCopyFile"}
       /\ getBackendForPath(ms, l.path2).err # "none"

\* C17: while no mount matches the path, each of the eleven operations fails
\* with NoMount, changes no file or directory record and emits no event;
\* isMounted returns false and getBackendType returns null; right after
\* mount(P, backend), getBackendType(P) and getBackendType(P + '/sub') are the
\* name of that backend.
C17_NoMount ==
    [][ /\ (last'.op \in PathOps /\ Unmatched(mounts, last')) =>
              /\ last'.err = "NoMount"
              /\ files' = files
              /\ dirs' = dirs
              /\ last'.emitted = << >>
              /\ last'.delivered = << >>
        /\ (last'.op = "isMounted" /\ Unmatched(mounts, last')) => last'.result = FALSE
        /\ (last'.op = "getBackendType" /\ Unmatched(mounts, last')) =>
              last'.result = "null"
        /\ last'.op = "mount" =>
              /\ getBackendType(mounts', last'.path) = BackendName(last'.backend)
              /\ getBackendType(mounts', last'.path \o <<SL, "s", "u", "b">>)
                   = BackendName(last'.backend)
      ]_vars

\* A writeFile was called with a handler subscribed and no mount for its path
C17_Witness ==
    /\ last.op = "fsWriteFile"
    /\ ~last.silent
    /\ Len(eventHandlers) > 0
    /\ mounts # << >>
    /\ last.err = "NoMount"

-----------------------------------------------------------------------------
(* Handlers that throw *)

\* C18: every event an operation emits reaches every subscribed handler, the
\* handlers registered after a throwing one included.
C18_Original ==
    \A k \in 1..Len(last.emitted) : \A i \in 1..Len(eventHandlers) :
        \E j \in 1..Len(last.delivered) :
            last.delivered[j] = [handler |-> eventHandlers[i], event |-> last.emitted[k]]

-----------------------------------------------------------------------------
(* The normalizer of the backend on every short string *)

\* The characters of the input strings and the longest input
PathChars == {SL, "a", "b"}
MaxLen == 6

\* Every string of at most MaxLen characters, the empty string included
NormalizeInputs == SeqsUpTo(PathChars, MaxLen)

InitNormalize ==
    /\ mounts = << >>
    /\ files = << >>
    /\ dirs = << >>
    /\ now = 0
    /\ eventHandlers = << >>
    /\ inflight = << >>
    /\ last \in {[NoLast EXCEPT !.op = "input", !.path = s] : s \in NormalizeInputs}

NormalizePathOp ==
    /\ last.op = "input"
    /\ last' = [last EXCEPT !.op = "normalizePath", !.result = normalizePath(last.path)]
    /\ UNCHANGED <<mounts, files, dirs, now, eventHandlers, inflight>>

NextNormalize == NormalizePathOp

SpecNormalize == InitNormalize /\ [][NextNormalize]_vars

\* Two adjacent '/' somewhere in s
HasRepeatedSlash(s) == \E i \in 1..(Len(s) - 1) : s[i] = SL /\ s[i + 1] = SL

\* C19: the result of normalizePath starts with '/', has no repeated '/', ends
\* with '/' only when it is '/', is a fixed point of normalizePath, and is the
\* key of the canonical spelling of the same location.
C19_Original ==
    last.op = "normalizePath" =>
        /\ StartsWith(last.result, <<SL>>)
        /\ ~HasRepeatedSlash(last.result)
        /\ EndsWith(last.result, <<SL>>) => last.result = <<SL>>
        /\ normalizePath(last.result) = last.result
        /\ normalizePath(Canonical(last.path)) = last.result

-----------------------------------------------------------------------------
(* Unmount and mount again *)

\* Paths handed to mount() and to unmount(): /a, /a/b, a second spelling of /a
\* and a path that is never mounted
RemountPaths == {P_a, P_a_b}
UnmountPaths == {P_a, P_a_sl, P_a_b, P_b}

SvcReadFileOp(p) ==
    /\ LET r == svcReadFile(mounts, files, p)
       IN  last' = [NoLast EXCEPT !.op = "svcReadFile", !.path = p, !.err = r.err,
                                  !.result = r.value]
    /\ UNCHANGED <<mounts, files, dirs, now, eventHandlers, inflight>>

NextUnmount ==
    \/ \E p \in RemountPaths, b \in Backends : MountOp(p, b)
    \/ \E p \in UnmountPaths : UnmountOp(p)
    \/ \E p \in ServiceWritePaths, c \in Texts : SvcWriteFileOp(p, c)
    \/ \E p \in ServiceWritePaths : SvcReadFileOp(p)

SpecUnmount == InitEmpty /\ [][NextUnmount]_vars

\* C20: unmount(P) leaves every file and directory record as it was; the table
\* afterwards holds the entries at other mount paths, all of them, in their
\* order; a path that only the removed entry matched no longer resolves; and
\* mounting the removed backend at P again makes every read give what it gave
\* before the unmount.
C20_Unmount ==
    [][ last'.op = "unmount" =>
          LET P == normalizeMountPath(last'.path)
              kept == {i \in 1..Len(mounts) : mounts[i].path # P}
          IN  /\ files' = files
              /\ dirs' = dirs
              /\ Len(mounts') = Cardinality(kept)
              /\ \A i \in kept : \E a \in 1..Len(mounts') : mounts'[a] = mounts[i]
              /\ \A a \in 1..Len(mounts') : \A b \in 1..Len(mounts') :
                     a < b => \E i \in kept : \E j \in kept :
                                  i < j /\ mounts[i] = mounts'[a] /\ mounts[j] = mounts'[b]
              /\ \A p \in ServiceWritePaths :
                     (\A i \in kept : ~MountMatches(mounts[i], svcNormalizePath(p)))
                         => getBackendForPath(mounts', p).err = "NoMount"
              /\ \A i \in 1..Len(mounts) :
                     mounts[i].path = P =>
                         \A p \in ServiceWritePaths :
                             svcReadFile(mount(mounts', last'.path, mounts[i].backend),
                                         files', p)
                               = svcReadFile(mounts, files, p)
      ]_vars

\* unmount('/a') has removed the entry of /a from a table that keeps the entry
\* of /a/b, a file written through /a/a is in the store, and /a/a does not
\* resolve any more
C20_Witness ==
    /\ last.op = "unmount"
    /\ last.mount # 0
    /\ normalizeMountPath(last.path) = P_a_sl
    /\ Len(mounts) = 1
    /\ normalizePath(P_a) \in DOMAIN files
    /\ getBackendForPath(mounts, P_a_a).err = "NoMount"

-----------------------------------------------------------------------------
(* Batch writes chunk by chunk: progress reports and a failing chunk *)

\* The number of batch writes of a run
MaxBatchRuns == 1

\* The entries handed to the backend and to the service, the chunk sizes, and
\* the chunk whose transaction fails (0: none)
RunEntries == {[path |-> p, content |-> <<255>>] : p \in BatchEntryPaths}
SvcRunEntries == {[path |-> p, content |-> <<255>>] : p \in BatchWritePaths}
Concurrencies == {1, 2}
FailAts == {0, 1, 2}

WriteBinaryBatchRunOp(entries, createParents, concurrency, failAt) ==
    /\ now < MaxBatchRuns
    /\ now' = now + 1
    /\ LET w == writeBinaryBatchRun(files, dirs, entries, createParents, concurrency,
                                    failAt, now')
       IN  /\ files' = w.files
           /\ dirs' = w.dirs
           /\ last' = [NoLast EXCEPT !.op = "writeBinaryBatchRun", !.paths = entries,
                                     !.createParents = createParents,
                                     !.concurrency = concurrency, !.failAt = failAt,
                                     !.err = w.err, !.reports = w.reports]
    /\ UNCHANGED <<mounts, eventHandlers, inflight>>

SvcWriteBinaryBatchOp(entries, concurrency, failAt) ==
    /\ now < MaxBatchRuns
    /\ now' = now + 1
    /\ \E w \in {svcWriteBinaryBatch(mounts, files, dirs, eventHandlers, entries, TRUE,
                                     concurrency, FALSE, failAt, now')} :
           /\ files' = w.files
           /\ dirs' = w.dirs
           /\ last' = [NoLast EXCEPT !.op = "svcWriteBinaryBatch", !.paths = entries,
                                     !.concurrency = concurrency, !.failAt = failAt,
                                     !.err = w.err, !.reports = w.reports,
                                     !.emitted = w.emitted, !.delivered = w.delivered]
    /\ UNCHANGED <<mounts, eventHandlers, inflight>>

NextBatchWrite ==
    \/ \E entries \in SeqsUpTo(RunEntries, MaxBatch), createParents \in BOOLEAN,
          concurrency \in Concurrencies, failAt \in FailAts :
          WriteBinaryBatchRunOp(entries, createParents, concurrency, failAt)
    \/ \E entries \in SeqsUpTo(SvcRunEntries, MaxBatch),
          concurrency \in Concurrencies, failAt \in FailAts :
          SvcWriteBinaryBatchOp(entries, concurrency, failAt)
    \/ SubscribeOp("h1")

SpecBatchWrite == InitWrite /\ [][NextBatchWrite]_vars

BatchWriteOps == {"writeBinaryBatchRun", "svcWriteBinaryBatch"}

\* C21: every report of a batch write is (completed, total) with total the
\* number of input entries and completed at most total; completed never
\* decreases; a batch that resolves has (total, total) as its last report; an
\* empty batch reports (0, 0) once.
C21_Original ==
    last.op \in BatchWriteOps =>
        LET total == Len(last.paths)
            R == last.reports
        IN  /\ \A i \in 1..Len(R) : R[i][2] = total /\ R[i][1] <= total
            /\ \A i \in 1..Len(R) : \A j \in 1..Len(R) : i < j => R[i][1] <= R[j][1]
            /\ (last.err = "none") => (Len(R) >= 1 /\ R[Len(R)] = <<total, total>>)
            /\ (total = 0) => (R = << <<0, 0>> >>)

\* The entries of a batch in the order they are put: the input order on the
\* backend, group after group through the service
RECURSIVE GroupsInOrder(_, _)
GroupsInOrder(resolved, order) ==
    IF Len(order) = 0 THEN << >>
    ELSE BackendEntries(resolved, Head(order)) \o GroupsInOrder(resolved, Tail(order))

PutOrder(ms, l) ==
    IF l.op = "writeBinaryBatchRun" THEN l.paths
    ELSE LET resolved == ResolveEntries(ms, l.paths)
         IN  GroupsInOrder(resolved, BackendOrder(resolved, {}))

\* C22: a batch write whose chunk fails rejects with the error of the chunk;
\* its reports are those of the chunks before, one per chunk, and the file
\* records afterwards are the records before with the entries of those chunks
\* put, and nothing else.
C22_ChunkFailure ==
    [][ /\ (last'.op = "writeBinaryBatchRun" /\ last'.failAt >= 1
               /\ last'.failAt <= ChunkCount(Len(last'.paths), last'.concurrency))
              => last'.err = "IOError"
        /\ (last'.op \in BatchWriteOps /\ last'.err # "none") =>
          LET R == last'.reports
              committed == IF Len(R) = 0 THEN 0 ELSE R[Len(R)][1]
              order == PutOrder(mounts, last')
          IN  /\ last'.err = "IOError"
              /\ last'.failAt >= 1
              /\ Len(R) = last'.failAt - 1
              /\ committed < Len(order)
              /\ files' = PutEntries(files, SubSeq(order, 1, committed), now')
      ]_vars

\* A batch of two entries in chunks of one whose second chunk failed: the first
\* entry is written, the second is not
C22_Witness ==
    /\ last.op = "svcWriteBinaryBatch"
    /\ last.err = "IOError"
    /\ last.concurrency = 1
    /\ last.failAt = 2
    /\ Len(last.paths) = 2
    /\ last.reports = << <<1, 2>> >>
    /\ Cardinality(DOMAIN files) = 1

-----------------------------------------------------------------------------
(* A rename onto the record it moves *)

\* C23: a rename through the service whose two paths resolve to the same backend
\* and the same record, that record being a file, leaves the file in the store
\* with its content.
C23_Original ==
    [][ LET old == getBackendForPath(mounts, last'.path)
            new == getBackendForPath(mounts, last'.path2)
            key == normalizePath(old.relativePath)
        IN  (/\ last'.op = "svcRename"
             /\ old.err = "none"
             /\ new.err = "none"
             /\ old.backend = new.backend
             /\ normalizePath(new.relativePath) = key
             /\ key \in DOMAIN files) =>
                /\ key \in DOMAIN files'
                /\ files'[key].content = files[key].content
      ]_vars

-----------------------------------------------------------------------------
(* The ancestors of a written file *)

\* C24: after writeFile or writeBinary of P (a path whose key is its canonical
\* form) every proper ancestor of P below the root has a directory record,
\* whatever the store held before.
C24_Original ==
    (/\ last.op \in {"writeFile", "writeBinary"}
     /\ normalizePath(last.path) = Canonical(last.path)) =>
        \A A \in AncestorChain(normalizePath(last.path)) \ {normalizePath(last.path)} :
            A \in DOMAIN dirs

-----------------------------------------------------------------------------
(* Files whose parent has no directory record *)

\* Paths of a tree three levels deep, and the contents written to it
TreePaths == {P_a, P_a_a, P_a_b, P_a_b_a}
TreeTexts == {<<"x">>}
TreeBins == {<<255>>}

NextTree ==
    \/ \E p \in TreePaths, c \in TreeTexts : WriteFileOp(p, c)
    \/ \E p \in TreePaths, c \in TreeBins : WriteBinaryOp(p, c)
    \/ \E p \in TreePaths : MkdirOp(p)
    \/ \E p \in TreePaths, recursive \in BOOLEAN : RmdirOp(p, recursive)
    \/ \E p \in TreePaths : DeleteFileOp(p)

SpecTree == InitEmpty /\ [][NextTree]_vars

\* The file records below the root, keyed in canonical form, whose parent path
\* has no directory record
Orphans ==
    {P \in DOMAIN files : /\ P # <<SL>>
                          /\ P = Canonical(P)
                          /\ getParentPath(P) \notin DOMAIN dirs}

\* C25: a file record whose parent has no directory record is visible: exists is
\* true, stat reports a file, readFile gives the stored content and readdir of
\* the parent lists it as a file.
C25_OrphanVisible ==
    \A P \in Orphans :
        /\ exists(files, dirs, P)
        /\ LET stats == stat(files, dirs, P)
           IN  stats.err = "none" /\ stats.isFile /\ ~stats.isDirectory
        /\ readFile(files, P).err = "none"
        /\ ~files[P].isBinary => readFile(files, P).value = files[P].content
        /\ LET entries == readdir(files, dirs, getParentPath(P))
           IN  \E i \in 1..Len(entries) : entries[i].path = P /\ ~entries[i].isDirectory

\* A non-recursive rmdir of /a has left the file /a/a without its directory
C25_Witness ==
    /\ last.op = "rmdir"
    /\ ~last.recursive
    /\ P_a_a \in Orphans
    /\ P_a \notin DOMAIN files

-----------------------------------------------------------------------------
(* Concurrent mkdir calls, interleaved at their awaits *)

\* The number of mkdir calls that run at once, and the paths they are given
MaxRacers == 2
RacePaths == {P_a, P_a_a, P_a_b, P_a_b_a}

\* The second transaction of IndexedDBBackend.mkdir with store.add in place of
\* store.put: a key that is there fails the request
mkdirAddMissing(d, missingPaths, t) ==
    IF \E i \in 1..Len(missingPaths) : missingPaths[i] \in DOMAIN d
    THEN [err |-> "ConstraintError", dirs |-> d]
    ELSE [err |-> "none", dirs |-> PutDirs(d, missingPaths, t)]

\* The second transaction of IndexedDBBackend.mkdir: store.put of every path
\* that was missing when the first transaction looked
mkdirPutMissing(d, missingPaths, t) ==
    [err |-> "none", dirs |-> PutDirs(d, missingPaths, t)]

\* No call is running: the operations that run alone may run
Idle == \A id \in DOMAIN inflight : inflight[id].pc = "done"

\* mkdir up to its first await (dbPromise): pathsToCreate is built; an empty
\* list returns at once.  before is the directories store as the first of the
\* concurrent calls found it.
MkdirStart(id, p) ==
    /\ id \notin DOMAIN inflight
    /\ \A other \in 1..(id - 1) : other \in DOMAIN inflight
    /\ LET pathsToCreate == PathsToCreate(<< >>, SplitSegments(normalizePath(p)))
           before == IF DOMAIN inflight = {} THEN dirs ELSE inflight[1].before
       IN  inflight' = StorePut(inflight, id,
                          [op |-> "mkdir", path |-> p, pathsToCreate |-> pathsToCreate,
                           missingPaths |-> << >>, err |-> "none", before |-> before,
                           pc |-> IF Len(pathsToCreate) = 0 THEN "done" ELSE "check"])
    /\ last' = [NoLast EXCEPT !.op = "mkdirStart", !.path = p]
    /\ UNCHANGED <<mounts, files, dirs, now, eventHandlers>>

\* The readonly transaction: which of the paths have a record
MkdirCheck(id) ==
    /\ id \in DOMAIN inflight
    /\ inflight[id].pc = "check"
    /\ LET missingPaths == SelectSeq(inflight[id].pathsToCreate, LAMBDA q : q \notin DOMAIN dirs)
       IN  inflight' = [inflight EXCEPT ![id].missingPaths = missingPaths,
                                        ![id].pc = IF Len(missingPaths) = 0 THEN "done"
                                                   ELSE "put"]
    /\ last' = [NoLast EXCEPT !.op = "mkdirCheck", !.path = inflight[id].path]
    /\ UNCHANGED <<mounts, files, dirs, now, eventHandlers>>

\* The readwrite transaction
MkdirPut(id) ==
    /\ id \in DOMAIN inflight
    /\ inflight[id].pc = "put"
    /\ LET w == mkdirPutMissing(dirs, inflight[id].missingPaths, now)
       IN  /\ dirs' = w.dirs
           /\ inflight' = [inflight EXCEPT ![id].err = w.err, ![id].pc = "done"]
    /\ last' = [NoLast EXCEPT !.op = "mkdirPut", !.path = inflight[id].path]
    /\ UNCHANGED <<mounts, files, now, eventHandlers>>

\* mkdir and rmdir that run alone, before the concurrent calls
SetupMkdirOp(p) == DOMAIN inflight = {} /\ MkdirOp(p)
SetupRmdirOp(p) == DOMAIN inflight = {} /\ RmdirOp(p, FALSE)

NextRace ==
    \/ \E p \in RacePaths : SetupMkdirOp(p)
    \/ \E p \in RacePaths : SetupRmdirOp(p)
    \/ \E id \in 1..MaxRacers, p \in RacePaths : MkdirStart(id, p)
    \/ \E id \in 1..MaxRacers : MkdirCheck(id)
    \/ \E id \in 1..MaxRacers : MkdirPut(id)

SpecRace == InitEmpty /\ [][NextRace]_vars

\* C26: when the concurrent mkdir calls have all completed, none has failed, the
\* directory records that were there before are unchanged, and the keys of the
\* store are those keys and the ancestor chains of the requested paths.
C26_MkdirRace ==
    (DOMAIN inflight # {} /\ Idle) =>
        LET before == inflight[1].before
            chains == UNION {AncestorChain(normalizePath(inflight[id].path)) :
                                id \in DOMAIN inflight}
        IN  /\ \A id \in DOMAIN inflight : inflight[id].err = "none"
            /\ DOMAIN dirs = DOMAIN before \cup chains
            /\ \A k \in DOMAIN before : dirs[k] = before[k]

\* Two calls on overlapping paths have both completed, and both had looked
\* before either had put: each found the shared ancestor missing
C26_Witness ==
    /\ DOMAIN inflight = {1, 2}
    /\ Idle
    /\ inflight[1].path = P_a_b
    /\ inflight[2].path = P_a_a
    /\ inflight[1].missingPaths = <<P_a, P_a_b>>
    /\ inflight[2].missingPaths = <<P_a, P_a_a>>

-----------------------------------------------------------------------------
(* A writeFile of the service suspended while the mount table changes *)

\* The number of suspended service calls, the mounts made and removed while
\* they are suspended, and the paths written
MaxSuspended == 1
SuspendMounts == {[path |-> P_a, backend |-> "B1"], [path |-> P_a_b, backend |-> "B2"]}
SuspendPaths == {P_a_a, P_a_b_a}

\* A target resolved when the backend is called, not when writeFile was called
TargetResolvedLate(ms, call) ==
    LET r == getBackendForPath(ms, call.path)
    IN  [err |-> r.err, backend |-> r.backend, relativePath |-> r.relativePath]

\* The constants backend and relativePath of the suspended call
TargetOf(ms, call) ==
    [err |-> "none", backend |-> call.backend, relativePath |-> call.relativePath]

\* writeFile up to its first await: getBackendForPath throws or gives the
\* target; shouldEmit is taken from the handlers subscribed now; with
\* shouldEmit the call waits for backend.exists, otherwise for backend.writeFile
FsWriteFileCall(id, p, c) ==
    /\ id \notin DOMAIN inflight
    /\ \A other \in 1..(id - 1) : other \in DOMAIN inflight
    /\ LET r == getBackendForPath(mounts, p)
           shouldEmit == Len(eventHandlers) > 0
       IN  /\ inflight' = StorePut(inflight, id,
                             [op |-> "writeFile", path |-> p, content |-> c, err |-> r.err,
                              backend |-> r.backend, relativePath |-> r.relativePath,
                              shouldEmit |-> shouldEmit, existed |-> FALSE,
                              emitted |-> << >>,
                              pc |-> IF r.err # "none" THEN "done"
                                     ELSE IF shouldEmit THEN "exists" ELSE "write"])
           /\ last' = [NoLast EXCEPT !.op = "fsWriteFileCall", !.path = p, !.err = r.err,
                                     !.backend = r.backend, !.relativePath = r.relativePath]
    /\ UNCHANGED <<mounts, files, dirs, now, eventHandlers>>

\* await backend.exists(relativePath)
FsWriteFileExists(id) ==
    /\ id \in DOMAIN inflight
    /\ inflight[id].pc = "exists"
    /\ LET target == TargetOf(mounts, inflight[id])
       IN  /\ inflight' = [inflight EXCEPT ![id].existed = exists(files, dirs, target.relativePath),
                                            ![id].pc = "write"]
           /\ last' = [NoLast EXCEPT !.op = "fsWriteFileExists", !.path = inflight[id].path,
                                     !.backend = target.backend,
                                     !.relativePath = target.relativePath]
    /\ UNCHANGED <<mounts, files, dirs, now, eventHandlers>>

\* await backend.writeFile(relativePath, content), then the event
FsWriteFileWrite(id) ==
    /\ id \in DOMAIN inflight
    /\ inflight[id].pc = "write"
    /\ now' = now + 1
    /\ LET call == inflight[id]
           target == TargetOf(mounts, call)
           w == IF target.err # "none" THEN NoMountResult(files, dirs)
                ELSE [err |-> "none"] @@ writeFile(files, dirs, target.relativePath,
                                                  call.content, now')
           e == WithEvents(w, eventHandlers,
                    IF call.shouldEmit
                    THEN <<Event(IF call.existed THEN "file:modified" ELSE "file:created",
                                 call.path)>>
                    ELSE << >>)
       IN  /\ files' = e.files
           /\ dirs' = e.dirs
           /\ inflight' = [inflight EXCEPT ![id].err = e.err, ![id].emitted = e.emitted,
                                            ![id].pc = "done"]
           /\ last' = [NoLast EXCEPT !.op = "fsWriteFileWrite", !.path = call.path,
                                     !.content = call.content, !.err = e.err,
                                     !.backend = target.backend,
                                     !.relativePath = target.relativePath,
                                     !.emitted = e.emitted, !.delivered = e.delivered]
    /\ UNCHANGED <<mounts, eventHandlers>>

NextSuspend ==
    \/ \E m \in SuspendMounts : MountOp(m.path, m.backend)
    \/ \E m \in SuspendMounts : UnmountOp(m.path)
    \/ SubscribeOp("h1")
    \/ \E id \in 1..MaxSuspended, p \in SuspendPaths, c \in TreeTexts : FsWriteFileCall(id, p, c)
    \/ \E id \in 1..MaxSuspended : FsWriteFileExists(id)
    \/ \E id \in 1..MaxSuspended : FsWriteFileWrite(id)

SpecSuspend == InitEmpty /\ [][NextSuspend]_vars

\* The table is sorted by path length, longest first, with one entry per path
TableWhole(ms) ==
    /\ \A i \in 1..Len(ms) : \A j \in 1..Len(ms) :
           i < j => (Len(ms[i].path) >= Len(ms[j].path) /\ ms[i].path # ms[j].path)

\* C27: a service call takes its backend and relative path from the mount table
\* as it is when the call is made; while the call is suspended no mount or
\* unmount changes them; the backend calls it makes later use them; and the
\* mount table every step sees is sorted with one entry per mount path.
C27_ResolveOnce ==
    [][ /\ TableWhole(mounts')
        /\ \A id \in DOMAIN inflight' :
              /\ id \notin DOMAIN inflight =>
                    LET r == getBackendForPath(mounts, inflight'[id].path)
                    IN  /\ inflight'[id].err = r.err
                        /\ inflight'[id].backend = r.backend
                        /\ inflight'[id].relativePath = r.relativePath
              /\ id \in DOMAIN inflight =>
                    /\ inflight'[id].backend = inflight[id].backend
                    /\ inflight'[id].relativePath = inflight[id].relativePath
        /\ last'.op \in {"fsWriteFileExists", "fsWriteFileWrite"} =>
              \E id \in DOMAIN inflight :
                  /\ inflight[id].pc # inflight'[id].pc
                  /\ last'.backend = inflight[id].backend
                  /\ last'.relativePath = inflight[id].relativePath
                  /\ last'.op = "fsWriteFileWrite" =>
                        normalizePath(inflight[id].relativePath) \in DOMAIN files'
      ]_vars

\* A call made for /a/b/a while /a/b was not mounted has written through the
\* mount /a although /a/b is mounted by now with another backend
C27_Witness ==
    /\ last.op = "fsWriteFileWrite"
    /\ last.path = P_a_b_a
    /\ last.backend = "B1"
    /\ getBackendForPath(mounts, P_a_b_a).backend = "B2"
    /\ last.relativePath # getBackendForPath(mounts, P_a_b_a).relativePath

-----------------------------------------------------------------------------
(* rename and copyFile of the service, one backend call at a time *)

\* The number of rename/copyFile calls that run at once, and their paths: /a/a
\* on the first backend, /a/b/a and /a/b/b on the second, /b/a on none
MaxMoves == 1
MovePaths == {P_a_a, P_a_b_a, P_a_b_b, P_b_a}
MoveSources == {P_a_a, P_a_b_b}

\* Steps that delete the source before they write the destination
MoveStepsDeleteFirst(op, cross) ==
    IF ~cross THEN <<op>>
    ELSE IF op = "rename" THEN <<"read", "delete", "write">>
    ELSE <<"read", "write">>

\* The backend calls of rename and copyFile in the order of the code: across
\* two instances readBinary, writeBinary and, for rename, deleteFile; on one
\* instance the rename or the copyFile of the backend
MoveSteps(op, cross) ==
    IF ~cross THEN <<op>>
    ELSE IF op = "rename" THEN <<"read", "write", "delete">>
    ELSE <<"read", "write">>

\* The events of a rename or copyFile that has made all its backend calls
MoveEvents(call) ==
    IF call.op = "rename"
    THEN <<Event("file:deleted", call.path), Event("file:created", call.path2)>>
    ELSE <<Event("file:created", call.path2)>>

\* rename / copyFile up to the first await: both paths are resolved
MoveCall(id, op, p, q) ==
    /\ id \notin DOMAIN inflight
    /\ \A other \in 1..(id - 1) : other \in DOMAIN inflight
    /\ LET old == getBackendForPath(mounts, p)
           new == getBackendForPath(mounts, q)
           err == IF old.err # "none" THEN old.err ELSE new.err
       IN  /\ inflight' = StorePut(inflight, id,
                             [op |-> op, path |-> p, path2 |-> q, err |-> err,
                              old |-> old, new |-> new, content |-> << >>,
                              todo |-> IF err # "none" THEN << >>
                                       ELSE MoveSteps(op, old.backend # new.backend),
                              made |-> << >>, emitted |-> << >>,
                              pc |-> IF err # "none" THEN "done" ELSE "await"])
           /\ last' = [NoLast EXCEPT !.op = "moveCall", !.path = p, !.path2 = q,
                                     !.err = err]
    /\ UNCHANGED <<mounts, files, dirs, now, eventHandlers>>

\* One backend call of a suspended rename / copyFile.  fail says that the
\* backend rejects the call with an I/O error.  After the last call the events
\* are emitted.
MoveStep(id, fail) ==
    /\ id \in DOMAIN inflight
    /\ inflight[id].pc = "await"
    /\ LET call == inflight[id]
           step == Head(call.todo)
           src == call.old.relativePath
           dest == call.new.relativePath
           read == readBinary(files, src)
           r == IF fail THEN [err |-> "IOError", files |-> files, dirs |-> dirs]
                ELSE IF step = "read"
                THEN [err |-> read.err, files |-> files, dirs |-> dirs]
                ELSE IF step = "write"
                THEN [err |-> "none"] @@ writeBinary(files, dirs, dest, call.content, now)
                ELSE IF step = "delete"
                THEN [err |-> "none", files |-> deleteFile(files, src), dirs |-> dirs]
                ELSE IF step = "rename" THEN rename(files, dirs, src, dest, now)
                ELSE copyFile(files, dirs, src, dest, now)
           finished == r.err = "none" /\ Len(call.todo) = 1
           e == IF finished THEN EmitAll(eventHandlers, MoveEvents(call))
                ELSE [emitted |-> << >>, delivered |-> << >>, err |-> r.err]
       IN  /\ files' = r.files
           /\ dirs' = r.dirs
           /\ inflight' = [inflight EXCEPT
                  ![id].content = IF step = "read" /\ r.err = "none" THEN read.value ELSE @,
                  ![id].made = Append(@, step),
                  ![id].todo = Tail(@),
                  ![id].err = e.err,
                  ![id].emitted = e.emitted,
                  ![id].pc = IF r.err # "none" \/ finished THEN "done" ELSE "await"]
           /\ last' = [NoLast EXCEPT !.op = "moveStep", !.path = call.path,
                                     !.path2 = call.path2, !.err = e.err,
                                     !.content = <<step>>,
                                     !.emitted = e.emitted, !.delivered = e.delivered]
    /\ UNCHANGED <<mounts, now, eventHandlers>>

\* Files written before any rename or copyFile is called
SetupWriteOp(p, c) == DOMAIN inflight = {} /\ SvcWriteFileOp(p, c)

NextMove ==
    \/ \E p \in MoveSources, c \in TreeTexts : SetupWriteOp(p, c)
    \/ \E id \in 1..MaxMoves, op \in {"rename", "copyFile"}, p \in MovePaths, q \in MovePaths :
           MoveCall(id, op, p, q)
    \/ \E id \in 1..MaxMoves, fail \in BOOLEAN : MoveStep(id, fail)

SpecMove == InitWrite /\ [][NextMove]_vars

\* s is a prefix of t
IsPrefixOf(s, t) == Len(s) <= Len(t) /\ SubSeq(t, 1, Len(s)) = s

\* The bytes readBinary gives for the key, << >> when there is no record
BytesAt(f, key) == IF key \in DOMAIN f THEN readBinary(f, key).value ELSE << >>

\* C28: a rename or copyFile whose ends resolve makes its backend calls in the
\* order read, write, delete (rename) across two backend instances, and makes
\* the one rename or copyFile call on a single instance; a call that fails ends
\* the operation with the error and without an event; no step other than the
\* delete, which comes after a successful write, removes or changes the bytes of
\* the source; an operation that made all its calls emits its events.
C28_MoveOrder ==
    [][ \A id \in DOMAIN inflight :
          LET call == inflight[id]
              after == inflight'[id]
              cross == call.old.backend # call.new.backend
              expected == IF ~cross THEN <<call.op>>
                          ELSE IF call.op = "rename" THEN <<"read", "write", "delete">>
                          ELSE <<"read", "write">>
              srcKey == normalizePath(call.old.relativePath)
          IN  (call.pc = "await" /\ after # call) =>
                 /\ IsPrefixOf(after.made, expected)
                 /\ Len(after.made) = Len(call.made) + 1
                 /\ after.err # "none" => (after.pc = "done" /\ after.emitted = << >>)
                 /\ (after.err = "none" /\ after.pc = "done") =>
                        (after.made = expected /\ after.emitted = MoveEvents(call))
                 /\ (cross /\ (after.err # "none" \/ after.made[Len(after.made)] # "delete")) =>
                        (srcKey \in DOMAIN files =>
                            (srcKey \in DOMAIN files'
                             /\ BytesAt(files', srcKey) = BytesAt(files, srcKey)))
      ]_vars

\* A rename across the two backends has written its destination and then failed
\* to delete its source: both files are there and no event was emitted
C28_Witness ==
    /\ 1 \in DOMAIN inflight
    /\ inflight[1].op = "rename"
    /\ inflight[1].path = P_a_a
    /\ inflight[1].path2 = P_a_b_b
    /\ inflight[1].made = <<"read", "write", "delete">>
    /\ inflight[1].err = "IOError"
    /\ inflight[1].emitted = << >>
    /\ P_a \in DOMAIN files
    /\ P_b \in DOMAIN files

-----------------------------------------------------------------------------
(* A recursive rmdir in any state of the store *)

\* C29: in whatever state the store is, rmdir(P, {recursive: true}) of a
\* directory P below the root, given in canonical form, leaves no file record
\* and no directory record whose key is P or starts with P + '/'.
C29_Original ==
    [][ (/\ last'.op = "rmdir" /\ last'.recursive
         /\ last'.path \in CanonicalStorePaths \ {P_root}
         /\ last'.path \in DOMAIN dirs
         /\ last'.path \notin DOMAIN files) =>
            \A k \in (DOMAIN files') \cup (DOMAIN dirs') :
                k # last'.path /\ ~StartsWith(k, last'.path \o <<SL>>)
      ]_vars

-----------------------------------------------------------------------------
(* The events of the operations *)

EmittingOps ==
    {"fsWriteFile", "fsWriteBinary", "fsDeleteFile", "fsMkdir", "fsRmdir", "fsRename"}

\* The events the call l is to emit in a store whose file records were f
\* before the call: l.path is in canonical form, the absolute path of the event
ExpectedEvents(ms, f, l) ==
    LET heldFile == normalizePath(getBackendForPath(ms, l.path).relativePath) \in DOMAIN f
    IN  IF l.op \in {"fsWriteFile", "fsWriteBinary"}
        THEN <<[type |-> IF heldFile THEN "file:modified" ELSE "file:created",
                path |-> l.path]>>
        ELSE IF l.op = "fsDeleteFile" THEN <<[type |-> "file:deleted", path |-> l.path]>>
        ELSE IF l.op = "fsMkdir" THEN <<[type |-> "directory:created", path |-> l.path]>>
        ELSE IF l.op = "fsRmdir" THEN <<[type |-> "directory:deleted", path |-> l.path]>>
        ELSE <<[type |-> "file:deleted", path |-> l.path],
               [type |-> "file:created", path |-> l.path2]>>

\* C30: with a subscriber, and no subscribed handler that throws, an operation
\* that succeeds and is not silent emits the events of its kind with its path,
\* file:created or file:modified by whether the path held a file before the
\* write; an operation that fails or is silent emits nothing.
C30_Original ==
    [][ (/\ last'.op \in EmittingOps
         /\ Len(eventHandlers) >= 1
         /\ \A i \in 1..Len(eventHandlers) : eventHandlers[i] \notin ThrowingHandlers) =>
            IF last'.err = "none" /\ ~last'.silent
            THEN last'.emitted = ExpectedEvents(mounts, files, last')
            ELSE last'.emitted = << >>
      ]_vars

-----------------------------------------------------------------------------
(* Two writeFile calls of the service running concurrently *)

\* The number of concurrent writeFile calls and the paths they write
MaxWriters == 2
WriterPaths == {P_a_a, P_a_b_a}

NextWriters ==
    \/ MountOp(P_a, "B1")
    \/ SubscribeOp("h1")
    \/ \E id \in 1..MaxWriters, p \in WriterPaths, c \in TreeTexts : FsWriteFileCall(id, p, c)
    \/ \E id \in 1..MaxWriters : FsWriteFileExists(id)
    \/ \E id \in 1..MaxWriters : FsWriteFileWrite(id)

SpecWriters == InitEmpty /\ [][NextWriters]_vars

\* The finished writeFile calls for path p
Finished(p) ==
    {id \in DOMAIN inflight :
        inflight[id].pc = "done" /\ inflight[id].path = p /\ inflight[id].err = "none"}

\* C31: among the writeFile calls that wrote one path, absent at the start,
\* each made with a subscriber registered, exactly one emitted file:created
\* for it and every other one emitted file:modified, whatever the interleaving
\* of their backend calls.
C31_Original ==
    \A p \in WriterPaths :
        LET created == {id \in Finished(p) :
                           inflight[id].emitted = <<Event("file:created", p)>>}
        IN  (\A id \in DOMAIN inflight : inflight[id].path = p => inflight[id].shouldEmit)
            => /\ Finished(p) # {} => Cardinality(created) = 1
               /\ \A id \in Finished(p) \ created :
                      inflight[id].emitted = <<Event("file:modified", p)>>

-----------------------------------------------------------------------------
(* The mount table under every sequence of mount and unmount calls *)

\* Paths handed to mount() and unmount(): the spellings /a, a, /a/ and //a of
\* one location among them
TableInputs == MountInputs \cup {P_sl_sl_a}

\* FileSystemService.getMounts
getMounts(ms) ==
    [i \in 1..Len(ms) |-> [path |-> ms[i].path, backend |-> BackendName(ms[i].backend)]]

\* mount(p, b); last.mount is the position the mount path had in the table
\* before the call, 0 when it was not mounted, and last.result is what getMounts
\* returns after the call
RemountOp(p, b) ==
    /\ mounts' = mount(mounts, p, b)
    /\ last' = [NoLast EXCEPT !.op = "mount", !.path = p, !.backend = b,
                              !.mount = MountAt(mounts, normalizeMountPath(p)),
                              !.result = getMounts(mounts')]
    /\ UNCHANGED <<files, dirs, now, eventHandlers, inflight>>

NextTable ==
    \/ \E p \in TableInputs, b \in Backends : RemountOp(p, b)
    \/ \E p \in TableInputs : UnmountOp(p)

SpecTable == InitEmpty /\ [][NextTable]_vars

EntriesAt(ms, path) == {i \in 1..Len(ms) : ms[i].path = normalizeMountPath(path)}

-----------------------------------------------------------------------------
(* The entries a batch write of the service writes, skips and announces *)

\* C32: a batch write of the service that resolves has put every entry whose
\* path resolves under the key of its path relative to the mount, and has
\* emitted an event for those entries only: no event carries the path of an
\* entry that resolves to no mount.
C32_Original ==
    (last.op = "svcWriteBinaryBatch" /\ last.err = "none") =>
        \A i \in 1..Len(last.paths) :
            LET entry == last.paths[i]
                r == getBackendForPath(mounts, entry.path)
            IN  /\ r.err = "none" =>
                      /\ normalizePath(r.relativePath) \in DOMAIN files
                      /\ files[normalizePath(r.relativePath)].content = entry.content
                /\ r.err # "none" =>
                      \A k \in 1..Len(last.emitted) :
                          last.emitted[k].path # svcNormalizePath(entry.path)

-----------------------------------------------------------------------------
(* writeBinaryBatch chunk by chunk: IndexedDBBackend.writeBinaryBatch, and the
   fallback loop of FileSystemService.writeBinaryBatch over an OPFSBackend *)

\* The number of batch calls, and the values of the concurrency option
MaxChunkCalls == 1
ChunkWidths == {0, 1, 2}

\* FileSystemService.getParentPath
svcGetParentPath(path) ==
    LET normalized == svcNormalizePath(path)
        lastSlash == LastIndexOfSlash(normalized)
    IN  IF lastSlash <= 0 THEN <<SL>> ELSE SliceTo(normalized, lastSlash)

\* entries.slice(i, i + concurrency), i counted from 0
SliceChunk(entries, i, concurrency) ==
    SubSeq(entries, i + 1, IF i + concurrency > Len(entries) THEN Len(entries)
                           ELSE i + concurrency)

\* A call of writeBinaryBatch up to its chunk loop.  native says that the
\* backend is an IndexedDBBackend, which creates the parent directories of the
\* whole batch before the loop; otherwise the service runs its fallback loop
\* over an OPFSBackend.  The calls of one behaviour are on one backend.  i is
\* the loop variable, j the number of callbacks of the chunk that have run.
BatchCall(id, native, entries, concurrency) ==
    /\ id \notin DOMAIN inflight
    /\ \A other \in 1..(id - 1) : other \in DOMAIN inflight
    /\ \A other \in DOMAIN inflight : inflight[other].native = native
    /\ now' = now + 1
    /\ dirs' = IF native /\ Len(entries) > 0
               THEN MkdirAll(dirs, DirsToCreate(entries), now')
               ELSE dirs
    /\ inflight' = StorePut(inflight, id,
                      [op |-> "writeBinaryBatch", native |-> native, entries |-> entries,
                       concurrency |-> concurrency, i |-> 0, j |-> 0, t |-> now',
                       err |-> "none",
                       pc |-> IF Len(entries) = 0 THEN "resolved" ELSE "loop"])
    /\ last' = [NoLast EXCEPT !.op = "batchCall", !.paths = entries,
                              !.concurrency = concurrency]
    /\ UNCHANGED <<mounts, files, eventHandlers>>

\* One callback of batch.map in the fallback: mkdir of the parent unless it is
\* '/', then writeBinary.  The callbacks of a chunk are taken in input order, and
\* a callback that rejects does not keep the others from running.  The steps of
\* OPFSBackend.mkdir and OPFSBackend.writeBinary are taken one by one:
\* getDirectoryHandle over the parts of the parent, getParentAndName over the
\* parts of the path, getFileHandle, write.
FallbackCallback(id) ==
    /\ id \in DOMAIN inflight
    /\ inflight[id].pc = "loop"
    /\ ~inflight[id].native
    /\ inflight[id].i < Len(inflight[id].entries)
    /\ \E call \in {inflight[id]} :
       \E batch \in {SliceChunk(call.entries, call.i, call.concurrency)} :
          /\ call.j < Len(batch)
          /\ \E entry \in {batch[call.j + 1]} :
             \E parentPath \in {svcGetParentPath(entry.path)} :
             \E parentParts \in {getPathParts(parentPath)} :
             \E parts \in {getPathParts(entry.path)} :
             \E m \in {IF parentPath # <<SL>>
                       THEN WalkDirectories(files, dirs, << >>, parentParts, TRUE)
                       ELSE [err |-> "none", dir |-> << >>, dirs |-> dirs]} :
             \E pn \in {IF m.err # "none" THEN m
                        ELSE IF Len(parts) = 0
                        THEN [err |-> "InvalidOperation", dir |-> << >>, dirs |-> m.dirs]
                        ELSE WalkDirectories(files, m.dirs, << >>, DropLast(parts), TRUE)} :
             \E key \in {IF Len(parts) = 0 THEN << >>
                         ELSE pn.dir \o <<SL>> \o parts[Len(parts)]} :
             \E err \in {IF pn.err # "none" THEN pn.err
                         ELSE IF Len(parts[Len(parts)]) = 0 THEN "TypeError"
                         ELSE IF key \in DOMAIN pn.dirs THEN "TypeMismatch"
                         ELSE "none"} :
                /\ files' = IF err = "none"
                            THEN StorePut(files, key, [content |-> entry.content])
                            ELSE files
                /\ dirs' = pn.dirs
                /\ inflight' = [inflight EXCEPT
                                   ![id].j = call.j + 1,
                                   ![id].err = IF call.err # "none" THEN call.err ELSE err]
                /\ last' = [NoLast EXCEPT !.op = "fallbackCallback", !.path = entry.path,
                                          !.err = err]
    /\ UNCHANGED <<mounts, now, eventHandlers>>

\* One test of the loop condition and, when it holds, one chunk.  On the
\* IndexedDBBackend the promise of a chunk is resolved by the onsuccess of its
\* last put and rejected by an onerror: for an empty chunk neither ever runs,
\* and the call stays at that await (pc = "pending").  In the fallback the
\* callbacks of the chunk have run: Promise.all of them rejects or resolves, of
\* an empty chunk it resolves, and i += concurrency follows.
BatchChunk(id) ==
    /\ id \in DOMAIN inflight
    /\ inflight[id].pc = "loop"
    /\ \E call \in {inflight[id]} :
       \E batch \in {SliceChunk(call.entries, call.i, call.concurrency)} :
          /\ call.native \/ call.i >= Len(call.entries) \/ call.j = Len(batch)
          /\ files' = IF call.native /\ call.i < Len(call.entries)
                      THEN PutEntries(files, batch, call.t)
                      ELSE files
          /\ inflight' =
                IF call.i >= Len(call.entries)
                THEN [inflight EXCEPT ![id].pc = "resolved"]
                ELSE IF call.native /\ Len(batch) = 0
                THEN [inflight EXCEPT ![id].pc = "pending"]
                ELSE IF call.err # "none"
                THEN [inflight EXCEPT ![id].pc = "rejected"]
                ELSE [inflight EXCEPT ![id].i = call.i + call.concurrency, ![id].j = 0]
          /\ last' = [NoLast EXCEPT !.op = "batchChunk", !.paths = batch,
                                    !.concurrency = call.concurrency, !.err = call.err]
    /\ UNCHANGED <<mounts, dirs, now, eventHandlers>>

NextChunks ==
    \/ \E id \in 1..MaxChunkCalls, native \in BOOLEAN,
          entries \in SeqsUpTo(RunEntries, MaxBatch), concurrency \in ChunkWidths :
          BatchCall(id, native, entries, concurrency)
    \/ \E id \in 1..MaxChunkCalls : FallbackCallback(id)
    \/ \E id \in 1..MaxChunkCalls : BatchChunk(id)

\* The loop of a call goes on as long as it can: nothing but the call itself
\* keeps it from its next callback or its next chunk
SpecChunks ==
    /\ InitEmpty
    /\ [][NextChunks]_vars
    /\ WF_vars(\E id \in 1..MaxChunkCalls : FallbackCallback(id))
    /\ WF_vars(\E id \in 1..MaxChunkCalls : BatchChunk(id))

\* The entry is in the store of the backend of the call
EntryWritten(call, entry) ==
    IF call.native
    THEN /\ normalizePath(entry.path) \in DOMAIN files
         /\ files[normalizePath(entry.path)].content = entry.content
    ELSE LET pn == getParentAndName(files, dirs, entry.path, FALSE)
         IN  /\ pn.err = "none"
             /\ (pn.parent \o <<SL>> \o pn.name) \in DOMAIN files
             /\ files[pn.parent \o <<SL>> \o pn.name].content = entry.content

\* C38: a call of writeBinaryBatch with a non-empty batch resolves or rejects in
\* the end, whatever the concurrency option is, 0 included; and when it has
\* resolved every entry of the batch is written.
C38_Original ==
    /\ [](\A id \in DOMAIN inflight :
             inflight[id].pc = "resolved" =>
                \A k \in 1..Len(inflight[id].entries) :
                    EntryWritten(inflight[id], inflight[id].entries[k]))
    /\ \A id \in 1..MaxChunkCalls :
          (id \in DOMAIN inflight /\ Len(inflight[id].entries) > 0)
             ~> (id \in DOMAIN inflight /\ inflight[id].pc \in {"resolved", "rejected"})

-----------------------------------------------------------------------------
(* The order of the handler calls, and unsubscribe *)

\* The calls that hand every event of events, one after the other, to every
\* handler of handlers in their order
RECURSIVE AllDeliveries(_, _)
AllDeliveries(handlers, events) ==
    IF Len(events) = 0 THEN << >>
    ELSE [i \in 1..Len(handlers) |-> [handler |-> handlers[i], event |-> Head(events)]]
         \o AllDeliveries(handlers, Tail(events))

\* C35: every event an operation emits is handed, before the operation
\* returns, to every subscribed handler in the order of registration; the
\* callback subscribe returned removes its handler and no other, so that
\* handler gets no later event and the others get every one.
C35_Original ==
    [][ /\ last'.op = "subscribe" =>
              /\ \E i \in 1..Len(eventHandlers') : eventHandlers'[i] = last'.content[1]
              /\ SubSeq(eventHandlers', 1, Len(eventHandlers)) = eventHandlers
        /\ last'.op = "unsubscribe" =>
              eventHandlers' = SelectSeq(eventHandlers, LAMBDA h : h # last'.content[1])
        /\ last'.op \notin {"subscribe", "unsubscribe"} =>
              /\ eventHandlers' = eventHandlers
              /\ last'.delivered = AllDeliveries(eventHandlers, last'.emitted)
      ]_vars

-----------------------------------------------------------------------------
(* exists and stat on every store the backend can reach *)

\* The paths looked up: those written, and other spellings of them
StatPaths == TreePaths \cup {P_root, P_a_sl_sl, P_rel_a_b, P_b}

\* C36: stat reports a file with its stored size for a path that has a file
\* record, whether or not it has a directory record too; a directory of size 0
\* for a path that has a directory record only; and fails with NotFound exactly
\* when exists is false, which is when the path has neither record.
C36_ExistsStat ==
    \A P \in StatPaths :
        LET normalized == normalizePath(P)
            stats == stat(files, dirs, P)
            found == exists(files, dirs, P)
        IN  /\ found <=> (normalized \in DOMAIN files \/ normalized \in DOMAIN dirs)
            /\ normalized \in DOMAIN files =>
                  /\ stats.err = "none" /\ stats.isFile /\ ~stats.isDirectory
                  /\ stats.size = files[normalized].size
            /\ (normalized \notin DOMAIN files /\ normalized \in DOMAIN dirs) =>
                  /\ stats.err = "none" /\ ~stats.isFile /\ stats.isDirectory
                  /\ stats.size = 0
            /\ (stats.err = "NotFound") <=> ~found

\* /a/a has a file record and a directory record, /a a directory record only,
\* and /a/b has neither
C36_Witness ==
    /\ P_a_a \in DOMAIN files /\ P_a_a \in DOMAIN dirs
    /\ P_a \in DOMAIN dirs /\ P_a \notin DOMAIN files
    /\ P_a_b \notin DOMAIN files /\ P_a_b \notin DOMAIN dirs
    /\ files[P_a_a].size > 0

-----------------------------------------------------------------------------
(* A non-recursive rmdir of a directory that has children *)

\* C37: rmdir(P) without recursive leaves every file record as it is and every
\* directory record but the one of P, which it removes, whatever is below P.
C37_RmdirOwnRecord ==
    [][ (last'.op = "rmdir" /\ ~last'.recursive) =>
            /\ files' = files
            /\ DOMAIN dirs' = (DOMAIN dirs) \ {normalizePath(last'.path)}
            /\ \A k \in DOMAIN dirs' : dirs'[k] = dirs[k]
      ]_vars

\* rmdir('/a') was called while /a had a subdirectory and a file, and both are
\* still there without /a
C37_Witness ==
    /\ last.op = "rmdir"
    /\ ~last.recursive
    /\ last.path = P_a
    /\ P_a \notin DOMAIN dirs
    /\ P_a_b \in DOMAIN dirs
    /\ P_a_b_a \in DOMAIN files

-----------------------------------------------------------------------------
(* A batch write next to the same entries written one by one *)

\* Paths of the entries: a path, a path right below it, a path two levels down
EquivPaths == {P_a, P_a_a, P_a_b_a}

EquivEntries == {[path |-> p, content |-> c] : p \in EquivPaths, c \in Bins}

\* for (const e of entries) await backend.writeBinary(e.path, e.content)
RECURSIVE WriteEach(_, _, _, _)
WriteEach(f, d, entries, t) ==
    IF Len(entries) = 0 THEN [files |-> f, dirs |-> d]
    ELSE LET w == writeBinary(f, d, Head(entries).path, Head(entries).content, t)
         IN  WriteEach(w.files, w.dirs, Tail(entries), t)

\* IndexedDBBackend.writeBinaryBatch(entries, {concurrency}) with createParents
\* left at its default and no transaction failing
WriteBinaryBatchDefaultOp(entries, concurrency) ==
    /\ now < MaxOps
    /\ now' = now + 1
    /\ \E w \in {writeBinaryBatchRun(files, dirs, entries, TRUE, concurrency, 0, now')} :
           /\ files' = w.files
           /\ dirs' = w.dirs
           /\ last' = [NoLast EXCEPT !.op = "writeBinaryBatchRun", !.paths = entries,
                                     !.createParents = TRUE,
                                     !.concurrency = concurrency, !.failAt = 0,
                                     !.err = w.err, !.reports = w.reports]
    /\ UNCHANGED <<mounts, eventHandlers, inflight>>

NextEquiv ==
    \/ \E p \in EquivPaths, c \in Bins : WriteBinaryOp(p, c)
    \/ \E p \in EquivPaths : RmdirOp(p, FALSE)
    \/ \E entries \in SeqsUpTo(EquivEntries, MaxBatch), concurrency \in Concurrencies :
          WriteBinaryBatchDefaultOp(entries, concurrency)

SpecEquiv == InitEmpty /\ [][NextEquiv]_vars

\* The keys of the ancestors of every entry of a batch
AncestorKeys(entries) ==
    {DirsToCreate(entries)[i] : i \in 1..Len(DirsToCreate(entries))}

\* The original wording of C39: after writeBinaryBatch(entries) with the default
\* createParents and a chunk width of at least 1 the files store has the keys
\* and the contents, and the directories store the keys, that writeBinary called
\* on each entry in input order leaves behind; every ancestor of every entry
\* has a directory record.
C39_Original ==
    [][ (last'.op = "writeBinaryBatchRun" /\ last'.err = "none") =>
          \E s \in {WriteEach(files, dirs, last'.paths, now')} :
              /\ DOMAIN files' = DOMAIN s.files
              /\ \A k \in DOMAIN files' : files'[k].content = s.files[k].content
              /\ DOMAIN dirs' = DOMAIN s.dirs
              /\ AncestorKeys(last'.paths) \subseteq DOMAIN dirs'
      ]_vars

====
